---- MODULE Spec2Model ----
(***************************************************************************)
(* A model of terraoptim: the cost-estimation and optimization-advisory    *)
(* engine behind `terraoptim ... --optimization <kind> [key=value ...]`.   *)
(*                                                                         *)
(* Units.  Python floats are modelled by exact integers:                   *)
(*   - every monetary result is a count of 0.0001 USD ("u");               *)
(*     round(x, 4) is a multiple of 1 u, round(x, 3) of 10 u and           *)
(*     round(x, 2) of 100 u;                                               *)
(*   - DynamoDB provisioned and storage prices, S3 storage prices and S3   *)
(*     per-1000-request prices are counts of 0.000001 USD;                 *)
(*   - DynamoDB on-demand prices are counts of 0.000000001 USD per request;*)
(*   - Lambda invocations are counted in thousands, GB-seconds in          *)
(*     thousands of GB-seconds times 1024 (so that memory/1024 is exact),  *)
(*     the GB-second price in u per thousand GB-seconds and the request    *)
(*     price in u per thousand requests;                                   *)
(*   - Glue DPU factors are counted in quarter DPUs, the DPU-hour price    *)
(*     in u; EC2 hourly prices in u.                                       *)
(* The Pricing Gateway (boto3 pricing / ec2 clients) is an external        *)
(* collaborator: one table of answers per invocation.                      *)
(***************************************************************************)
EXTENDS Integers, Sequences, FiniteSets, TLC

(***************************************************************************)
(* Bounds of the model.                                                    *)
(***************************************************************************)
MaxRecords == 2
MaxRequests == 2

(***************************************************************************)
(* Generic helpers.                                                        *)
(***************************************************************************)
NoneStr == "<None>"

\* dict.get(key, default)
Get(m, k, d) == IF k \in DOMAIN m THEN m[k] ELSE d

Max(a, b) == IF a >= b THEN a ELSE b
Min(a, b) == IF a <= b THEN a ELSE b

\* Python's round(): num/den to the nearest integer, ties to even (den > 0).
RoundHalfEven(num, den) ==
    LET q == num \div den
        r == num - q * den
    IN  IF 2 * r < den THEN q
        ELSE IF 2 * r > den THEN q + 1
        ELSE IF q % 2 = 0 THEN q ELSE q + 1

\* round(x, 3), round(x, 4), round(x, 2) of x = num/den u, in u.
Round3(num, den) == 10 * RoundHalfEven(num, den * 10)
Round4(num, den) == RoundHalfEven(num, den)
Round2(num, den) == 100 * RoundHalfEven(num, den * 100)

SeqSum(s, F(_)) ==
    LET acc[i \in 0..Len(s)] == IF i = 0 THEN 0 ELSE acc[i - 1] + F(s[i])
    IN  acc[Len(s)]

\* All sequences over S of length at most n.
SeqsUpTo(S, n) == UNION {[1..k -> S] : k \in 0..n}

(***************************************************************************)
(* The plan document (terraform show -json): a value that is a mapping or  *)
(* not; a mapping may lack "resource_changes"; each resource-change record *)
(* has a "type" and a change whose "after" is absent, null or a mapping of *)
(* attributes.                                                             *)
(***************************************************************************)
Rec(type, after_state, after) ==
    [type |-> type, after_state |-> after_state, after |-> after]

PlanOf(rc, region) ==
    [mapping |-> TRUE, truthy |-> TRUE, has_rc |-> TRUE, rc |-> rc, region |-> region]

\* A JSON value that is not an object (a non-empty list, a string, a number).
NotAMapping ==
    [mapping |-> FALSE, truthy |-> TRUE, has_rc |-> FALSE, rc |-> <<>>, region |-> ""]

\* An object without the "resource_changes" key.
NoResourceChanges ==
    [mapping |-> TRUE, truthy |-> TRUE, has_rc |-> FALSE, rc |-> <<>>, region |-> ""]

\* terraform_data.get("resource_changes", [])
resource_changes(terraform_data) ==
    IF terraform_data.has_rc THEN terraform_data.rc ELSE <<>>

DEFAULT_REGION == "us-east-1"

\* An extraction result: exc = "none" and the value, or the exception raised.
Ok(v) == [exc |-> "none", val |-> v]
Raise(e) == [exc |-> e, val |-> <<>>]

extract_region_from_terraform_plan(terraform_data) ==
    IF ~terraform_data.mapping THEN Raise("AttributeError")
    ELSE Ok(terraform_data.region)

\* `extract_region_from_terraform_plan(terraform_data) or "us-east-1"`
region_or_default(terraform_data) ==
    LET r == extract_region_from_terraform_plan(terraform_data)
    IN  IF r.exc # "none" THEN r
        ELSE IF r.val = "" THEN Ok(DEFAULT_REGION) ELSE r

\* The loop `for resource in ...: if resource["type"] == T: ...append(item)`:
\* PerRecord(resource) is [exc, skip, item]; the first exception ends the loop.
ExtractLoop(rc, PerRecord(_)) ==
    LET acc[i \in 0..Len(rc)] ==
            IF i = 0 THEN Ok(<<>>)
            ELSE LET prev == acc[i - 1]
                     it == PerRecord(rc[i])
                 IN  IF prev.exc # "none" THEN prev
                     ELSE IF it.exc # "none" THEN Raise(it.exc)
                     ELSE IF it.skip THEN prev
                     ELSE Ok(Append(prev.val, it.item))
    IN  acc[Len(rc)]

Skip == [exc |-> "none", skip |-> TRUE, item |-> <<>>]
Item(v) == [exc |-> "none", skip |-> FALSE, item |-> v]
ItemRaise(e) == [exc |-> e, skip |-> FALSE, item |-> <<>>]

\* resource["change"]["after"]: KeyError when absent; the later .get() on a
\* null "after" raises AttributeError.
StrictAfter(resource, F(_)) ==
    IF resource.after_state = "absent" THEN ItemRaise("KeyError")
    ELSE IF resource.after_state = "null" THEN ItemRaise("AttributeError")
    ELSE F(resource.after)

\* resource.get("change", {}).get("after", {}): {} when absent; a null
\* "after" is returned as None and the later .get() raises AttributeError.
LenientAfter(resource, F(_)) ==
    IF resource.after_state = "absent" THEN F(<<>>)
    ELSE IF resource.after_state = "null" THEN ItemRaise("AttributeError")
    ELSE F(resource.after)

lambda_item(resource) ==
    IF resource.type # "aws_lambda_function" THEN Skip
    ELSE LET F(after) ==
                 LET archs == Get(after, "architectures", <<"x86_64">>)
                 IN  IF Len(archs) = 0 THEN ItemRaise("IndexError")
                     ELSE Item([name |-> Get(after, "name", NoneStr),
                                memory |-> Get(after, "memory_size", 128),
                                timeout |-> Get(after, "timeout", 3),
                                architecture |-> archs[1]])
         IN  StrictAfter(resource, F)

extract_lambda_functions(terraform_data) ==
    ExtractLoop(resource_changes(terraform_data), lambda_item)

dynamodb_item(resource) ==
    IF resource.type # "aws_dynamodb_table" THEN Skip
    ELSE LET F(after) ==
                 Item([billing_mode |-> Get(after, "billing_mode", "PROVISIONED"),
                       read_capacity |-> Get(after, "read_capacity", 0),
                       write_capacity |-> Get(after, "write_capacity", 0)])
         IN  LenientAfter(resource, F)

extract_dynamodb_tables(terraform_data) ==
    ExtractLoop(resource_changes(terraform_data), dynamodb_item)

glue_item(resource) ==
    IF resource.type # "aws_glue_job" THEN Skip
    ELSE LET F(after) ==
                 Item([name |-> Get(after, "name", "Unnamed"),
                       worker_type |-> Get(after, "worker_type", "Standard"),
                       num_workers |-> Get(after, "number_of_workers", 10)])
         IN  StrictAfter(resource, F)

extract_glue_jobs(terraform_data) ==
    ExtractLoop(resource_changes(terraform_data), glue_item)

\* A missing instance_type is None and the record is skipped; a missing
\* spot_instance is None, which `if is_spot` reads as false.
ec2_item(resource) ==
    IF resource.type # "aws_instance" THEN Skip
    ELSE LET F(after) ==
                 IF "instance_type" \notin DOMAIN after THEN Skip
                 ELSE Item([instance_type |-> after["instance_type"],
                            spot |-> Get(after, "spot_instance", FALSE)])
         IN  StrictAfter(resource, F)

extract_ec2_instances(terraform_data) ==
    ExtractLoop(resource_changes(terraform_data), ec2_item)

s3_item(resource) ==
    IF resource.type # "aws_s3_bucket" THEN Skip
    ELSE LET F(after) == Item(Get(after, "bucket", NoneStr))
         IN  StrictAfter(resource, F)

extract_s3_buckets(terraform_data) ==
    ExtractLoop(resource_changes(terraform_data), s3_item)

\* The first matching bucket record's first transition of its first
\* lifecycle rule: [class, days], class = NoneStr when there is none.
NoTransition == [class |-> NoneStr, days |-> 0]

extract_storage_class_from_lifecycle(terraform_data, bucket_name) ==
    LET rc == resource_changes(terraform_data)
        hit(i) == /\ rc[i].type = "aws_s3_bucket"
                  /\ rc[i].after_state = "map"   \* others raised in extract_s3_buckets
                  /\ Get(rc[i].after, "bucket", NoneStr) = bucket_name
                  /\ "lifecycle_transition" \in DOMAIN rc[i].after
        hits == {i \in 1..Len(rc) : hit(i)}
    IN  IF hits = {} THEN NoTransition
        ELSE LET first == CHOOSE i \in hits : \A j \in hits : i <= j
             IN  rc[first].after["lifecycle_transition"]

(***************************************************************************)
(* The Pricing Gateway.  gw.price maps a call key <<service, dimension>>   *)
(* to [st, price]: st = "ok" (a matching price entry), "none" (no match)   *)
(* or "raise" (the API call fails); gw.spot maps an instance type to its   *)
(* spot-price samples and gw.catalog is the instance-type catalog.  A      *)
(* price result in the program is a float or None.                         *)
(***************************************************************************)
PNone == [none |-> TRUE, v |-> 0]
PVal(v) == [none |-> FALSE, v |-> v]
\* `not price`, `all(prices.values())`: None and 0.0 are falsy.
Falsy(p) == p.none \/ p.v = 0

\* A pricing call that re-raises API errors (`except ...: raise e`).
PriceOrRaise(gw, key) ==
    IF gw.price[key].st = "raise" THEN Raise("Exception")
    ELSE IF gw.price[key].st = "none" THEN Ok(PNone)
    ELSE Ok(PVal(gw.price[key].price))

\* A pricing call that swallows API errors and returns None.
PriceOrNone(gw, key) ==
    IF gw.price[key].st = "ok" THEN PVal(gw.price[key].price) ELSE PNone

(***************************************************************************)
(* DynamoDB.                                                               *)
(***************************************************************************)
FREE_TIER_READ_CAPACITY == 25
FREE_TIER_WRITE_CAPACITY == 25
FREE_TIER_STORAGE_GB == 25
HOURS_PER_MONTH == 720

DDB_PRICE_KEYS == <<"ReadCapacityUnit-Hrs", "WriteCapacityUnit-Hrs",
                    "TimedStorage-ByteHrs", "ReadRequestUnits", "WriteRequestUnits">>
DDB_PRICE_NAMES == <<"read_prov", "write_prov", "storage", "read_ondemand", "write_ondemand">>

get_dynamodb_price(gw, usage_type) == PriceOrRaise(gw, <<"ddb", usage_type>>)

\* The `prices = {...}` literal of dynamodb_main: five calls in order, the
\* first failing call ends them.  [exc, val (name -> price), calls].
dynamodb_fetch_prices(gw) ==
    LET acc[i \in 0..Len(DDB_PRICE_KEYS)] ==
            IF i = 0 THEN [exc |-> "none", val |-> <<>>, calls |-> <<>>]
            ELSE LET prev == acc[i - 1]
                     r == get_dynamodb_price(gw, DDB_PRICE_KEYS[i])
                 IN  IF prev.exc # "none" THEN prev
                     ELSE [exc |-> r.exc,
                           val |-> IF r.exc = "none"
                                   THEN (DDB_PRICE_NAMES[i] :> r.val) @@ prev.val
                                   ELSE prev.val,
                           calls |-> Append(prev.calls, <<"ddb", DDB_PRICE_KEYS[i]>>)]
    IN  acc[Len(DDB_PRICE_KEYS)]

\* `all(prices.values())`
dynamodb_all_prices(prices) == \A n \in DOMAIN prices : ~Falsy(prices[n])

\* calculate_table_cost with the storage allowance taken off each table.
calculate_table_cost_less_allowance(table, prices, user_defaults) ==
    LET prov == table.billing_mode = "PROVISIONED"
        storage == user_defaults["storage"]
        read == IF prov THEN table.read_capacity ELSE user_defaults["reads"]
        write == IF prov THEN table.write_capacity ELSE user_defaults["writes"]
    IN  [mode |-> table.billing_mode,
         read |-> read,
         write |-> write,
         storage |-> storage,
         cost_read |-> IF prov
                       THEN Round3(read * HOURS_PER_MONTH * prices["read_prov"].v, 100)
                       ELSE Round3(read * prices["read_ondemand"].v, 100000),
         cost_write |-> IF prov
                        THEN Round3(write * HOURS_PER_MONTH * prices["write_prov"].v, 100)
                        ELSE Round3(write * prices["write_ondemand"].v, 100000),
         cost_storage |->
             Round3(Max(storage - FREE_TIER_STORAGE_GB, 0) * prices["storage"].v, 100)]

\* calculate_table_cost charging on-demand requests by the hour as well.
calculate_table_cost_hourly(table, prices, user_defaults) ==
    LET prov == table.billing_mode = "PROVISIONED"
        storage == user_defaults["storage"]
        read == IF prov THEN table.read_capacity ELSE user_defaults["reads"]
        write == IF prov THEN table.write_capacity ELSE user_defaults["writes"]
    IN  [mode |-> table.billing_mode,
         read |-> read,
         write |-> write,
         storage |-> storage,
         cost_read |-> IF prov
                       THEN Round3(read * HOURS_PER_MONTH * prices["read_prov"].v, 100)
                       ELSE Round3(read * prices["read_prov"].v, 100),
         cost_write |-> IF prov
                        THEN Round3(write * HOURS_PER_MONTH * prices["write_prov"].v, 100)
                        ELSE Round3(write * prices["write_prov"].v, 100),
         cost_storage |-> Round3(storage * prices["storage"].v, 100)]

calculate_table_cost(table, prices, user_defaults) ==
    LET prov == table.billing_mode = "PROVISIONED"
        storage == user_defaults["storage"]
        read == IF prov THEN table.read_capacity ELSE user_defaults["reads"]
        write == IF prov THEN table.write_capacity ELSE user_defaults["writes"]
    IN  [mode |-> table.billing_mode,
         read |-> read,
         write |-> write,
         storage |-> storage,
         cost_read |-> IF prov
                       THEN Round3(read * HOURS_PER_MONTH * prices["read_prov"].v, 100)
                       ELSE Round3(read * prices["read_ondemand"].v, 100000),
         cost_write |-> IF prov
                        THEN Round3(write * HOURS_PER_MONTH * prices["write_prov"].v, 100)
                        ELSE Round3(write * prices["write_ondemand"].v, 100000),
         cost_storage |-> Round3(storage * prices["storage"].v, 100)]

apply_free_tier(total_read, total_write, total_storage, prices) ==
    LET billable_read == Max(total_read - FREE_TIER_READ_CAPACITY, 0)
        billable_write == Max(total_write - FREE_TIER_WRITE_CAPACITY, 0)
        billable_storage == Max(total_storage - FREE_TIER_STORAGE_GB, 0)
    IN  [billable_read |-> billable_read,
         billable_write |-> billable_write,
         billable_storage |-> billable_storage,
         discount_read |->
             Round3((total_read - billable_read) * HOURS_PER_MONTH * prices["read_prov"].v, 100),
         discount_write |->
             Round3((total_write - billable_write) * HOURS_PER_MONTH * prices["write_prov"].v, 100),
         discount_storage |->
             Round3((total_storage - billable_storage) * prices["storage"].v, 100)]

CeilDiv(a, b) == -((-a) \div b)

SECONDS_PER_MONTH == 30 * 24 * 60 * 60

\* recommend_billing_mode choosing on-demand on a tie as well.
recommend_billing_mode_on_tie(reads, writes, prices) ==
    LET provisioned_read_units == CeilDiv(reads, SECONDS_PER_MONTH)
        provisioned_write_units == CeilDiv(writes, SECONDS_PER_MONTH)
        cost_provisioned ==
            1000 * (provisioned_read_units * HOURS_PER_MONTH * prices["read_prov"].v
                    + provisioned_write_units * HOURS_PER_MONTH * prices["write_prov"].v)
        cost_on_demand ==
            reads * prices["read_ondemand"].v + writes * prices["write_ondemand"].v
    IN  [estimated_cost_provisioned |-> Round3(cost_provisioned, 100000),
         estimated_cost_on_demand |-> Round3(cost_on_demand, 100000),
         recommendation |-> IF cost_on_demand <= cost_provisioned
                            THEN "PAY_PER_REQUEST" ELSE "PROVISIONED"]

\* Costs are compared unrounded, in 0.000000001 USD.
recommend_billing_mode(reads, writes, prices) ==
    LET provisioned_read_units == CeilDiv(reads, SECONDS_PER_MONTH)
        provisioned_write_units == CeilDiv(writes, SECONDS_PER_MONTH)
        cost_provisioned ==
            1000 * (provisioned_read_units * HOURS_PER_MONTH * prices["read_prov"].v
                    + provisioned_write_units * HOURS_PER_MONTH * prices["write_prov"].v)
        cost_on_demand ==
            reads * prices["read_ondemand"].v + writes * prices["write_ondemand"].v
    IN  [estimated_cost_provisioned |-> Round3(cost_provisioned, 100000),
         estimated_cost_on_demand |-> Round3(cost_on_demand, 100000),
         recommendation |-> IF cost_on_demand < cost_provisioned
                            THEN "PAY_PER_REQUEST" ELSE "PROVISIONED"]

\* One iteration of the loop of calculate_dynamodb_table_costs.
dynamodb_cost_step(table, prices, user_defaults, totals) ==
    LET result == calculate_table_cost(table, prices, user_defaults)
        subtotal == result.cost_read + result.cost_write + result.cost_storage
        prov == result.mode = "PROVISIONED"
    IN  [exc |-> "none",
         result |-> result @@ [subtotal |-> subtotal],
         totals |-> [total_cost |-> totals.total_cost + subtotal,
                     total_storage |-> totals.total_storage + result.storage,
                     total_prov_read |-> totals.total_prov_read + (IF prov THEN result.read ELSE 0),
                     total_prov_write |-> totals.total_prov_write + (IF prov THEN result.write ELSE 0)],
         calls |-> <<>>,
         missing |-> FALSE]

dynamodb_totals0 ==
    [total_cost |-> 0, total_storage |-> 0, total_prov_read |-> 0, total_prov_write |-> 0]

\* One free-tier dimension as the summary reports it.
Dim(name, total, allowance, billable, unadjusted, discount, final) ==
    [name |-> name, total |-> total, allowance |-> allowance, billable |-> billable,
     unadjusted |-> unadjusted, discount |-> discount, final |-> final]

summarize_dynamodb_totals(results, totals, prices, user_defaults) ==
    LET tier == apply_free_tier(totals.total_prov_read, totals.total_prov_write,
                                totals.total_storage, prices)
        discount == tier.discount_read + tier.discount_write + tier.discount_storage
        prov(r) == r.mode = "PROVISIONED"
        RC(r) == IF prov(r) THEN r.cost_read ELSE 0
        WC(r) == IF prov(r) THEN r.cost_write ELSE 0
        SC(r) == r.cost_storage
    IN  [exc |-> "none",
         calls |-> <<>>,
         total |-> totals.total_cost - discount,
         discount |-> discount,
         dims |-> <<Dim("read", totals.total_prov_read, FREE_TIER_READ_CAPACITY,
                        tier.billable_read, SeqSum(results, RC), tier.discount_read,
                        Round3(tier.billable_read * HOURS_PER_MONTH * prices["read_prov"].v, 100)),
                    Dim("write", totals.total_prov_write, FREE_TIER_WRITE_CAPACITY,
                        tier.billable_write, SeqSum(results, WC), tier.discount_write,
                        Round3(tier.billable_write * HOURS_PER_MONTH * prices["write_prov"].v, 100)),
                    Dim("storage", totals.total_storage, FREE_TIER_STORAGE_GB,
                        tier.billable_storage, SeqSum(results, SC), tier.discount_storage,
                        Round3(tier.billable_storage * prices["storage"].v, 100))>>,
         recommendation |-> recommend_billing_mode(user_defaults["reads"],
                                                   user_defaults["writes"], prices)]

dynamodb_defaults == [reads |-> 1000000, writes |-> 500000, storage |-> 10]

(***************************************************************************)
(* S3.                                                                     *)
(***************************************************************************)
FREE_TIER_S3_GB == 5
FREE_TIER_PUT_REQUESTS == 10000
FREE_TIER_GET_REQUESTS == 100000

STORAGE_CLASS_KEYWORDS ==
    {"STANDARD", "STANDARD_IA", "ONEZONE_IA", "GLACIER", "DEEP_ARCHIVE",
     "INTELLIGENT_TIERING", "GLACIER_IR"}

\* [exc, val, calls]: an unsupported class returns None without a call.
get_s3_storage_price(gw, storage_class) ==
    IF storage_class \notin STORAGE_CLASS_KEYWORDS
    THEN [exc |-> "none", val |-> PNone, calls |-> <<>>]
    ELSE PriceOrRaise(gw, <<"s3", storage_class>>) @@ [calls |-> << <<"s3", storage_class>> >>]

get_s3_request_price(gw, request_type) ==
    PriceOrRaise(gw, <<"s3", request_type>>) @@ [calls |-> << <<"s3", request_type>> >>]

\* The three calls that open calculate_s3_bucket_costs and
\* summarize_s3_totals: [exc, val (name -> price), calls].
s3_fetch_prices(gw) ==
    LET a == get_s3_storage_price(gw, "STANDARD")
        b == get_s3_request_price(gw, "PUT")
        c == get_s3_request_price(gw, "GET")
    IN  IF a.exc # "none" THEN [exc |-> a.exc, val |-> <<>>, calls |-> a.calls]
        ELSE IF b.exc # "none" THEN [exc |-> b.exc, val |-> <<>>, calls |-> a.calls \o b.calls]
        ELSE IF c.exc # "none"
             THEN [exc |-> c.exc, val |-> <<>>, calls |-> a.calls \o b.calls \o c.calls]
        ELSE [exc |-> "none",
              val |-> [storage |-> a.val, put |-> b.val, get |-> c.val],
              calls |-> a.calls \o b.calls \o c.calls]

s3_totals0 == [total_storage_cost |-> 0, total_put_cost |-> 0, total_get_cost |-> 0]

StepRaise(e, calls, totals) ==
    [exc |-> e, result |-> <<>>, totals |-> totals, calls |-> calls, missing |-> FALSE]

\* One iteration of the loop of calculate_s3_bucket_costs.
s3_cost_step(bucket, terraform_data, prices, user_defaults, totals, gw) ==
    LET t == extract_storage_class_from_lifecycle(terraform_data, bucket)
        storage == user_defaults["storage"]
        early == t.class # NoneStr /\ t.days < 30
        tp == IF early THEN get_s3_storage_price(gw, t.class)
              ELSE [exc |-> "none", val |-> PNone, calls |-> <<>>]
        storage_cost ==
            IF early
            THEN Round3(storage * t.days * prices.storage.v, 3000)
                 + Round3(storage * (30 - t.days) * tp.val.v, 3000)
            ELSE Round3(storage * prices.storage.v, 100)
        put_cost == Round3(user_defaults["put_requests"] * prices.put.v, 100000)
        get_cost == Round3(user_defaults["get_requests"] * prices.get.v, 100000)
    IN  IF tp.exc # "none" THEN StepRaise(tp.exc, tp.calls, totals)
        ELSE IF prices.storage.none \/ (early /\ tp.val.none)
                \/ prices.put.none \/ prices.get.none
             THEN StepRaise("TypeError", tp.calls, totals)
        ELSE [exc |-> "none",
              result |-> [bucket |-> bucket,
                          storage_cost |-> storage_cost,
                          put_cost |-> put_cost,
                          get_cost |-> get_cost,
                          storage_class |-> IF t.class # NoneStr THEN t.class ELSE "STANDARD",
                          transition_days |-> IF t.class # NoneStr THEN t.days ELSE -1],
              totals |-> [total_storage_cost |-> totals.total_storage_cost + storage_cost,
                          total_put_cost |-> totals.total_put_cost + put_cost,
                          total_get_cost |-> totals.total_get_cost + get_cost],
              calls |-> tp.calls,
              missing |-> FALSE]

SummaryRaise(e, calls) ==
    [exc |-> e, calls |-> calls, total |-> 0, discount |-> 0,
     dims |-> <<>>, recommendation |-> <<>>]

summarize_s3_totals(no_buckets, user_defaults, totals, gw) ==
    LET storage == user_defaults["storage"] * no_buckets
        put_requests == user_defaults["put_requests"] * no_buckets
        get_requests == user_defaults["get_requests"] * no_buckets
        f == s3_fetch_prices(gw)
        billable_storage == Max(storage - FREE_TIER_S3_GB, 0)
        billable_put == Max(put_requests - FREE_TIER_PUT_REQUESTS, 0)
        billable_get == Max(get_requests - FREE_TIER_GET_REQUESTS, 0)
        cost_storage ==
            Round3(Max(totals.total_storage_cost * 100 - FREE_TIER_S3_GB * f.val.storage.v, 0), 100)
        cost_put ==
            Round3(Max(totals.total_put_cost * 100
                       - (FREE_TIER_PUT_REQUESTS \div 1000) * f.val.put.v, 0), 100)
        cost_get ==
            Round3(Max(totals.total_get_cost * 100
                       - (FREE_TIER_GET_REQUESTS \div 1000) * f.val.get.v, 0), 100)
    IN  IF f.exc # "none" THEN SummaryRaise(f.exc, f.calls)
        ELSE IF f.val.storage.none \/ f.val.put.none \/ f.val.get.none
             THEN SummaryRaise("TypeError", f.calls)
        ELSE [exc |-> "none",
              calls |-> f.calls,
              total |-> cost_storage + cost_put + cost_get,
              discount |-> (totals.total_storage_cost - cost_storage)
                           + (totals.total_put_cost - cost_put)
                           + (totals.total_get_cost - cost_get),
              dims |-> <<Dim("storage", storage, FREE_TIER_S3_GB, billable_storage,
                             totals.total_storage_cost,
                             totals.total_storage_cost - cost_storage, cost_storage),
                         Dim("put", put_requests, FREE_TIER_PUT_REQUESTS, billable_put,
                             totals.total_put_cost,
                             totals.total_put_cost - cost_put, cost_put),
                         Dim("get", get_requests, FREE_TIER_GET_REQUESTS, billable_get,
                             totals.total_get_cost,
                             totals.total_get_cost - cost_get, cost_get)>>,
              recommendation |-> <<>>]

s3_defaults == [storage |-> 100, put_requests |-> 1000, get_requests |-> 10000]

(***************************************************************************)
(* Lambda.  Invocations in thousands; GB-seconds in 1000/1024 GB-seconds.  *)
(***************************************************************************)
FREE_TIER_REQUESTS == 1000
FREE_TIER_GB_SEC == 400

\* One get_products call per get_lambda_price; API errors are swallowed and
\* give (None, None).  Any architecture other than "arm64" reads the x86
\* compute description.
LambdaArchKey(architecture) == IF architecture = "arm64" THEN "arm64" ELSE "x86_64"

get_lambda_price(gw, architecture) ==
    LET a == LambdaArchKey(architecture)
    IN  IF gw.price[<<"lambda_gb", a>>].st = "raise"
        THEN [gb_sec_price |-> PNone, request_price |-> PNone, calls |-> << <<"lambda", a>> >>]
        ELSE [gb_sec_price |-> PriceOrNone(gw, <<"lambda_gb", a>>),
              request_price |-> PriceOrNone(gw, <<"lambda_req", a>>),
              calls |-> << <<"lambda", a>> >>]

\* [exc, val, calls]
estimate_lambda_cost(lambda_func, monthly_requests, avg_duration, gw) ==
    LET total_gb_seconds == monthly_requests * lambda_func.memory * avg_duration
        p == get_lambda_price(gw, lambda_func.architecture)
        request_cost1024 == monthly_requests * p.request_price.v * 1024
        compute_cost1024 == total_gb_seconds * p.gb_sec_price.v
    IN  IF p.request_price.none \/ p.gb_sec_price.none
        THEN [exc |-> "TypeError", val |-> <<>>, calls |-> p.calls]
        ELSE [exc |-> "none",
              val |-> [name |-> lambda_func.name,
                       memory |-> lambda_func.memory,
                       architecture |-> lambda_func.architecture,
                       requests |-> monthly_requests,
                       duration |-> avg_duration,
                       compute_cost |-> Round4(compute_cost1024, 1024),
                       request_cost |-> Round4(request_cost1024, 1024),
                       total_cost |-> Round4(request_cost1024 + compute_cost1024, 1024),
                       raw_gb_sec |-> total_gb_seconds,
                       raw_requests |-> monthly_requests],
              calls |-> p.calls]

lambda_totals0 == [total_gb_seconds |-> 0, total_invocations |-> 0]

\* One iteration of the loop of calculate_lambda_costs.  user_defaults
\* holds "duration" only when it is not None.
lambda_cost_step(func, user_defaults, totals, gw) ==
    LET invocations == user_defaults["invocations"]
        duration == Get(user_defaults, "duration", func.timeout)
        cost == estimate_lambda_cost(func, invocations, duration, gw)
    IN  IF cost.exc # "none" THEN StepRaise(cost.exc, cost.calls, totals)
        ELSE [exc |-> "none",
              result |-> cost.val,
              totals |-> [total_gb_seconds |-> totals.total_gb_seconds + cost.val.raw_gb_sec,
                          total_invocations |->
                              totals.total_invocations + cost.val.raw_requests],
              calls |-> cost.calls,
              missing |-> FALSE]

\* [exc, val, calls]: the arm64 estimate and whether a saving is reported.
suggest_graviton_alternative(lambda_func, monthly_requests, avg_duration, gw) ==
    LET graviton_func == [lambda_func EXCEPT !.architecture = "arm64"]
        graviton_cost == estimate_lambda_cost(graviton_func, monthly_requests, avg_duration, gw)
    IN  IF graviton_cost.exc # "none" THEN graviton_cost
        ELSE [exc |-> "none",
              val |-> [name |-> lambda_func.name,
                       current_cost |-> lambda_func.total_cost,
                       graviton_cost |-> graviton_cost.val.total_cost,
                       switch |-> graviton_cost.val.total_cost < lambda_func.total_cost],
              calls |-> graviton_cost.calls]

\* print_lambda_function_costs: a comparison for every x86_64 result, in
\* order; the first exception ends the loop.  [exc, val, calls].
print_lambda_function_costs(cost_results, gw) ==
    LET acc[i \in 0..Len(cost_results)] ==
            IF i = 0 THEN [exc |-> "none", val |-> <<>>, calls |-> <<>>]
            ELSE LET prev == acc[i - 1]
                     cost == cost_results[i]
                     alt == suggest_graviton_alternative(cost, cost.requests, cost.duration, gw)
                 IN  IF prev.exc # "none" THEN prev
                     ELSE IF cost.architecture # "x86_64" THEN prev
                     ELSE [exc |-> alt.exc,
                           val |-> IF alt.exc = "none" THEN Append(prev.val, alt.val)
                                   ELSE prev.val,
                           calls |-> prev.calls \o alt.calls]
    IN  acc[Len(cost_results)]

summarize_lambda_totals(results, totals, gw) ==
    LET billable_requests == Max(totals.total_invocations - FREE_TIER_REQUESTS, 0)
        billable_gb_sec == Max(totals.total_gb_seconds - FREE_TIER_GB_SEC * 1024, 0)
        p == get_lambda_price(gw, "x86_64")
        final_request_cost == Round3(billable_requests * p.request_price.v, 1)
        final_compute_cost == Round3(billable_gb_sec * p.gb_sec_price.v, 1024)
        RC(r) == r.request_cost
        CC(r) == r.compute_cost
    IN  IF p.request_price.none \/ p.gb_sec_price.none THEN SummaryRaise("TypeError", p.calls)
        ELSE [exc |-> "none",
              calls |-> p.calls,
              total |-> final_request_cost + final_compute_cost,
              discount |-> (SeqSum(results, RC) - final_request_cost)
                           + (SeqSum(results, CC) - final_compute_cost),
              dims |-> <<Dim("requests", totals.total_invocations, FREE_TIER_REQUESTS,
                             billable_requests, SeqSum(results, RC),
                             SeqSum(results, RC) - final_request_cost, final_request_cost),
                         Dim("gb_seconds", totals.total_gb_seconds, FREE_TIER_GB_SEC * 1024,
                             billable_gb_sec, SeqSum(results, CC),
                             SeqSum(results, CC) - final_compute_cost, final_compute_cost)>>,
              recommendation |-> <<>>]

lambda_defaults == [invocations |-> 1000]

(***************************************************************************)
(* Glue.  DPU factors in quarter DPUs.                                     *)
(***************************************************************************)
DPU_PER_WORKER ==
    [w \in {"Standard", "G.025X", "G.1X", "G.2X", "G.4X", "G.8X", "Z.2X"} |->
        CASE w = "Standard" -> 4
          [] w = "G.025X" -> 1
          [] w = "G.1X" -> 4
          [] w = "G.2X" -> 8
          [] w = "G.4X" -> 16
          [] w = "G.8X" -> 32
          [] w = "Z.2X" -> 32]

GLUE_TYPES == <<"G.025X", "Standard", "G.1X", "G.2X", "G.4X", "G.8X", "Z.2X">>

\* The usage type does not depend on the worker type.
get_glue_price(gw, worker_type) == PriceOrRaise(gw, <<"glue", "ETL-DPU-Hour">>)

\* calculate_glue_cost taking every worker for one DPU.
calculate_glue_cost_one_dpu(worker_type, num_workers, monthly_hours, gw) ==
    LET r == get_glue_price(gw, worker_type)
        total_dpu_hours == num_workers * 4 * monthly_hours
        calls == << <<"glue", "ETL-DPU-Hour">> >>
    IN  IF r.exc # "none" THEN [exc |-> r.exc, val |-> PNone, calls |-> calls]
        ELSE IF Falsy(r.val) THEN [exc |-> "none", val |-> PNone, calls |-> calls]
        ELSE [exc |-> "none",
              val |-> PVal(Round2(total_dpu_hours * r.val.v, 4)),
              calls |-> calls]

\* [exc, val (cost or None), calls]
calculate_glue_cost(worker_type, num_workers, monthly_hours, gw) ==
    LET r == get_glue_price(gw, worker_type)
        dpu_per_worker == Get(DPU_PER_WORKER, worker_type, 4)
        total_dpu_hours == num_workers * dpu_per_worker * monthly_hours
        calls == << <<"glue", "ETL-DPU-Hour">> >>
    IN  IF r.exc # "none" THEN [exc |-> r.exc, val |-> PNone, calls |-> calls]
        ELSE IF Falsy(r.val) THEN [exc |-> "none", val |-> PNone, calls |-> calls]
        ELSE [exc |-> "none",
              val |-> PVal(Round2(total_dpu_hours * r.val.v, 4)),
              calls |-> calls]

IndexOf(seq, x) ==
    IF \E i \in 1..Len(seq) : seq[i] = x
    THEN CHOOSE i \in 1..Len(seq) : seq[i] = x /\ \A j \in 1..(i - 1) : seq[j] # x
    ELSE 0

\* [exc, val (suggestions), calls]; an unknown worker type raises ValueError.
suggest_glue_alternatives(job, monthly_hours, gw) ==
    LET current_idx == IndexOf(GLUE_TYPES, job.worker_type)
        Try(acc, offset) ==
            LET new_idx == current_idx + offset
                new_type == GLUE_TYPES[new_idx]
                cost == calculate_glue_cost(new_type, job.num_workers, monthly_hours, gw)
            IN  IF acc.exc # "none" THEN acc
                ELSE IF ~(1 <= new_idx /\ new_idx <= Len(GLUE_TYPES)) THEN acc
                ELSE IF {job.worker_type, new_type} = {"Standard", "G.1X"} THEN acc
                ELSE [exc |-> cost.exc,
                      val |-> IF cost.exc = "none"
                              THEN Append(acc.val, [worker_type |-> new_type,
                                                    monthly_cost |-> cost.val])
                              ELSE acc.val,
                      calls |-> acc.calls \o cost.calls]
    IN  IF current_idx = 0 THEN [exc |-> "ValueError", val |-> <<>>, calls |-> <<>>]
        ELSE Try(Try([exc |-> "none", val |-> <<>>, calls |-> <<>>], -1), 1)

glue_totals0 == [total_glue_cost |-> 0]

\* One iteration of the loop of calculate_glue_job_costs.
glue_cost_step(job, hours, totals, gw) ==
    LET cost == calculate_glue_cost(job.worker_type, job.num_workers, hours, gw)
        totals1 == IF cost.val.none THEN totals
                   ELSE [total_glue_cost |-> totals.total_glue_cost + cost.val.v]
        suggestions == suggest_glue_alternatives(job, hours, gw)
    IN  IF cost.exc # "none" THEN StepRaise(cost.exc, cost.calls, totals)
        ELSE IF suggestions.exc # "none"
             THEN StepRaise(suggestions.exc, cost.calls \o suggestions.calls, totals1)
        ELSE [exc |-> "none",
              result |-> [name |-> job.name,
                          worker_type |-> job.worker_type,
                          cost |-> cost.val,
                          suggestions |-> suggestions.val],
              totals |-> totals1,
              calls |-> cost.calls \o suggestions.calls,
              missing |-> cost.val.none]

\* The total line that ends calculate_glue_job_costs.
summarize_glue_totals(totals) ==
    [exc |-> "none", calls |-> <<>>, total |-> totals.total_glue_cost, discount |-> 0,
     dims |-> <<>>, recommendation |-> <<>>]

glue_defaults == [hours |-> 10]

(***************************************************************************)
(* EC2.  An instance type is a string; FamilyChars gives the characters    *)
(* before its dot.                                                         *)
(***************************************************************************)
InstanceTypes ==
    {"t3.nano", "t3.micro", "t3.small", "t3.medium", "t3.large", "t3a.micro", "m5.large"}

FamilyChars(name) ==
    CASE name \in {"t3.nano", "t3.micro", "t3.small", "t3.medium", "t3.large"} -> <<"t", "3">>
      [] name = "t3a.micro" -> <<"t", "3", "a">>
      [] name = "m5.large" -> <<"m", "5">>

\* name.startswith(family_prefix), family_prefix holding no dot.
StartsWith(name, family_prefix) ==
    /\ Len(family_prefix) <= Len(FamilyChars(name))
    /\ SubSeq(FamilyChars(name), 1, Len(family_prefix)) = family_prefix

\* API errors are swallowed and give None.
get_ec2_on_demand_price(gw, instance_type) == PriceOrNone(gw, <<"ec2_od", instance_type>>)

\* The mean of the samples as [none, sum, n]; None without samples or on an
\* API error.
get_spot_price(gw, instance_type) ==
    LET samples == gw.spot[instance_type]
        id(x) == x
    IN  IF gw.price[<<"ec2_spot", instance_type>>].st = "raise" \/ Len(samples) = 0
        THEN [none |-> TRUE, sum |-> 0, n |-> 1]
        ELSE [none |-> FALSE, sum |-> SeqSum(samples, id), n |-> Len(samples)]

\* fetch_ec2_instance_types: API errors propagate.
fetch_ec2_instance_types(gw) ==
    IF gw.price[<<"ec2", "describe_instance_types">>].st = "raise"
    THEN Raise("Exception") @@ [calls |-> << <<"ec2", "describe_instance_types">> >>]
    ELSE Ok(gw.catalog) @@ [calls |-> << <<"ec2", "describe_instance_types">> >>]

InCatalog(catalog, name) == \E i \in 1..Len(catalog) : catalog[i].name = name

\* The sort key (hourly, vCPU, memory), compared as Python compares tuples.
KeyLess(a, b) ==
    \/ a.hourly < b.hourly
    \/ a.hourly = b.hourly /\ a.vCPU < b.vCPU
    \/ a.hourly = b.hourly /\ a.vCPU = b.vCPU /\ a.memory < b.memory

\* list.sort(key=...): stable.
SortCandidates(candidates) ==
    LET Insert(sorted, x) ==
            LET later == {i \in 1..Len(sorted) : KeyLess(x, sorted[i])}
                at == IF later = {} THEN Len(sorted) + 1
                      ELSE CHOOSE i \in later : \A j \in later : i <= j
            IN  SubSeq(sorted, 1, at - 1) \o <<x>> \o SubSeq(sorted, at, Len(sorted))
        acc[i \in 0..Len(candidates)] ==
            IF i = 0 THEN <<>> ELSE Insert(acc[i - 1], candidates[i])
    IN  acc[Len(candidates)]

\* The loop over the catalog: the priced candidates of the family, in
\* catalog order, and the price lookups made.
family_candidates(instance_type, hours_per_month, catalog, gw) ==
    LET family_prefix == FamilyChars(instance_type)
        scan[i \in 0..Len(catalog)] ==
            IF i = 0 THEN [cands |-> <<>>, calls |-> <<>>]
            ELSE LET prev == scan[i - 1]
                     e == catalog[i]
                     price == get_ec2_on_demand_price(gw, e.name)
                 IN  IF ~StartsWith(e.name, family_prefix) THEN prev
                     ELSE [cands |->
                               IF ~price.none /\ price.v > 0
                               THEN Append(prev.cands,
                                           [name |-> e.name, vCPU |-> e.vCPU,
                                            memory |-> e.memory,
                                            hourly |-> Round3(price.v, 1),
                                            monthly |-> Round3(price.v * hours_per_month, 1)])
                               ELSE prev.cands,
                           calls |-> Append(prev.calls, <<"ec2_od", e.name>>)]
    IN  scan[Len(catalog)]

\* suggest_alternatives with windows that reach one place too far.
suggest_alternatives_wide(instance_type, hours_per_month, catalog, gw) ==
    LET scanned == family_candidates(instance_type, hours_per_month, catalog, gw)
        candidates == SortCandidates(scanned.cands)
        hits == {i \in 1..Len(candidates) : candidates[i].name = instance_type}
        index == CHOOSE i \in hits : \A j \in hits : i <= j
    IN  IF ~InCatalog(catalog, instance_type)
        THEN [exc |-> "none",
              val |-> [found |-> FALSE, cheaper |-> <<>>, stronger |-> <<>>,
                       index |-> 0, candidates |-> <<>>],
              calls |-> <<>>]
        ELSE IF hits = {}
             THEN [exc |-> "TypeError", val |-> <<>>, calls |-> scanned.calls]
        ELSE [exc |-> "none",
              val |-> [found |-> TRUE,
                       cheaper |-> SubSeq(candidates, Max(1, index - 3), index - 1),
                       stronger |-> SubSeq(candidates, index + 1,
                                           Min(index + 3, Len(candidates))),
                       index |-> index,
                       candidates |-> candidates],
              calls |-> scanned.calls]

\* [exc, val, calls]; val = [found, cheaper, stronger, index, candidates].
suggest_alternatives(instance_type, hours_per_month, catalog, gw) ==
    LET scanned == family_candidates(instance_type, hours_per_month, catalog, gw)
        candidates == SortCandidates(scanned.cands)
        hits == {i \in 1..Len(candidates) : candidates[i].name = instance_type}
        index == CHOOSE i \in hits : \A j \in hits : i <= j
    IN  IF ~InCatalog(catalog, instance_type)
        THEN [exc |-> "none",
              val |-> [found |-> FALSE, cheaper |-> <<>>, stronger |-> <<>>,
                       index |-> 0, candidates |-> <<>>],
              calls |-> <<>>]
        ELSE IF hits = {}
             THEN [exc |-> "TypeError", val |-> <<>>, calls |-> scanned.calls]
        ELSE [exc |-> "none",
              val |-> [found |-> TRUE,
                       cheaper |-> SubSeq(candidates, Max(1, index - 2), index - 1),
                       stronger |-> SubSeq(candidates, index + 1,
                                           Min(index + 2, Len(candidates))),
                       index |-> index,
                       candidates |-> candidates],
              calls |-> scanned.calls]

ec2_totals0 == [total_on_demand |-> 0, total_spot |-> 0]

\* One iteration of the loop of calculate_ec2_costs.  A None price becomes
\* the string "N/A", and "N/A" * hours_per_month is rounded: TypeError.
ec2_cost_step(instance, hours_per_month, catalog, totals, gw) ==
    LET name == instance.instance_type
        od == get_ec2_on_demand_price(gw, name)
        spot == get_spot_price(gw, name)
        calls == << <<"ec2_od", name>>, <<"ec2_spot", name>> >>
        on_demand_price == Round3(od.v, 1)
        spot_price == Round3(spot.sum, spot.n)
        cost_monthly_on_demand ==
            IF on_demand_price # 0 THEN PVal(Round3(on_demand_price * hours_per_month, 1))
            ELSE PNone
        cost_monthly_spot ==
            IF spot_price # 0 THEN PVal(Round3(spot_price * hours_per_month, 1)) ELSE PNone
        totals1 == [total_on_demand |-> totals.total_on_demand + cost_monthly_on_demand.v,
                    total_spot |-> totals.total_spot + cost_monthly_spot.v]
        alt == suggest_alternatives(name, hours_per_month, catalog, gw)
    IN  IF Falsy(od) \/ spot.none \/ spot.sum = 0 THEN StepRaise("TypeError", calls, totals)
        ELSE IF alt.exc # "none" THEN StepRaise(alt.exc, calls \o alt.calls, totals1)
        ELSE [exc |-> "none",
              result |-> [instance |-> name,
                          on_demand_price |-> on_demand_price,
                          spot_price |-> spot_price,
                          cost_monthly_on_demand |-> cost_monthly_on_demand,
                          cost_monthly_spot |-> cost_monthly_spot,
                          alternatives |-> alt.val],
              totals |-> totals1,
              calls |-> calls \o alt.calls,
              missing |-> cost_monthly_on_demand.none \/ cost_monthly_spot.none]

summarize_ec2_totals(totals) ==
    [exc |-> "none", calls |-> <<>>, total |-> totals.total_on_demand,
     total_spot |-> totals.total_spot, discount |-> 0,
     dims |-> <<>>, recommendation |-> <<>>]

ec2_defaults == [hours |-> 720]

(***************************************************************************)
(* The per-kind main routines, stage by stage.                             *)
(***************************************************************************)
Kinds == {"ec2", "lambda", "s3", "dynamodb", "glue"}

\* `extract_x(terraform_data) if terraform_data else []`; glue_main calls
\* extract_glue_jobs unconditionally.
extract_for(kind, terraform_data) ==
    IF kind # "glue" /\ ~terraform_data.truthy THEN Ok(<<>>)
    ELSE CASE kind = "ec2" -> extract_ec2_instances(terraform_data)
           [] kind = "lambda" -> extract_lambda_functions(terraform_data)
           [] kind = "s3" -> extract_s3_buckets(terraform_data)
           [] kind = "dynamodb" -> extract_dynamodb_tables(terraform_data)
           [] kind = "glue" -> extract_glue_jobs(terraform_data)

\* The user_defaults literal of each main; Lambda's "duration": None is the
\* absence of the key.
defaults_for(kind) ==
    CASE kind = "ec2" -> ec2_defaults
      [] kind = "lambda" -> lambda_defaults
      [] kind = "s3" -> s3_defaults
      [] kind = "dynamodb" -> dynamodb_defaults
      [] kind = "glue" -> glue_defaults

allowed_keys(kind) ==
    IF kind = "lambda" THEN {"invocations", "duration"} ELSE DOMAIN defaults_for(kind)

ParamsNone == [is_dict |-> FALSE, map |-> <<>>]
ParamsDict(m) == [is_dict |-> TRUE, map |-> m]

\* merge_params raising on an unrecognized key instead of warning.
merge_params_rejecting(kind, params) ==
    LET defaults == defaults_for(kind)
        unknown_keys == DOMAIN params.map \ allowed_keys(kind)
        keys == DOMAIN defaults \cup (DOMAIN params.map \cap allowed_keys(kind))
    IN  IF ~params.is_dict
        THEN [exc |-> "none", user_defaults |-> defaults, warned |-> FALSE]
        ELSE [exc |-> IF unknown_keys # {} THEN "ValueError" ELSE "none",
              user_defaults |-> [k \in keys |-> IF k \in DOMAIN params.map
                                                THEN params.map[k] ELSE defaults[k]],
              warned |-> unknown_keys # {}]

\* `if isinstance(params, dict): ... user_defaults[k] = params.get(k, user_defaults[k])`
merge_params(kind, params) ==
    LET defaults == defaults_for(kind)
        unknown_keys == DOMAIN params.map \ allowed_keys(kind)
        keys == DOMAIN defaults \cup (DOMAIN params.map \cap allowed_keys(kind))
    IN  IF ~params.is_dict
        THEN [exc |-> "none", user_defaults |-> defaults, warned |-> FALSE]
        ELSE [exc |-> "none",
              user_defaults |-> [k \in keys |-> IF k \in DOMAIN params.map
                                                THEN params.map[k] ELSE defaults[k]],
              warned |-> unknown_keys # {}]

\* The emptiness test without its early return.
none_found_ignored(kind, found) == FALSE

\* `if not <resources>: print(...none found...); return`
none_found(kind, found) == found = <<>>

\* Every main wraps its body in `try: ... except Exception`.
main_catches(kind) == TRUE

\* Where each main fetches before its per-resource loop.
has_price_step(kind) == kind \in {"dynamodb", "s3", "ec2"}
\* Mains whose per-resource report is a loop of its own.
has_print_step(kind) == kind \in {"lambda", "s3", "dynamodb"}

totals0(kind) ==
    CASE kind = "ec2" -> ec2_totals0
      [] kind = "lambda" -> lambda_totals0
      [] kind = "s3" -> s3_totals0
      [] kind = "dynamodb" -> dynamodb_totals0
      [] kind = "glue" -> glue_totals0

\* [exc, val, calls, unavailable]
price_step(kind, gw) ==
    CASE kind = "dynamodb" ->
            LET f == dynamodb_fetch_prices(gw)
            IN  f @@ [unavailable |-> f.exc = "none" /\ ~dynamodb_all_prices(f.val)]
      [] kind = "s3" -> s3_fetch_prices(gw) @@ [unavailable |-> FALSE]
      [] kind = "ec2" -> fetch_ec2_instance_types(gw) @@ [unavailable |-> FALSE]

cost_step(kind, resource, terraform_data, prices, user_defaults, totals, gw) ==
    CASE kind = "ec2" -> ec2_cost_step(resource, user_defaults["hours"], prices, totals, gw)
      [] kind = "lambda" -> lambda_cost_step(resource, user_defaults, totals, gw)
      [] kind = "s3" -> s3_cost_step(resource, terraform_data, prices, user_defaults, totals, gw)
      [] kind = "dynamodb" -> dynamodb_cost_step(resource, prices, user_defaults, totals)
      [] kind = "glue" -> glue_cost_step(resource, user_defaults["hours"], totals, gw)

print_step(kind, results, gw) ==
    IF kind = "lambda" THEN print_lambda_function_costs(results, gw)
    ELSE [exc |-> "none", val |-> <<>>, calls |-> <<>>]

summary_step(kind, results, totals, prices, user_defaults, gw) ==
    CASE kind = "ec2" -> summarize_ec2_totals(totals)
      [] kind = "lambda" -> summarize_lambda_totals(results, totals, gw)
      [] kind = "s3" -> summarize_s3_totals(Len(results), user_defaults, totals, gw)
      [] kind = "dynamodb" -> summarize_dynamodb_totals(results, totals, prices, user_defaults)
      [] kind = "glue" -> summarize_glue_totals(totals)

(***************************************************************************)
(* Inputs: gateway tables, plan documents and argument lists.              *)
(***************************************************************************)
PriceKeys ==
    {<<"ddb", DDB_PRICE_KEYS[i]>> : i \in 1..Len(DDB_PRICE_KEYS)}
    \cup {<<"s3", c>> : c \in STORAGE_CLASS_KEYWORDS \cup {"PUT", "GET"}}
    \cup ({"lambda_gb", "lambda_req"} \X {"x86_64", "arm64"})
    \cup {<<"glue", "ETL-DPU-Hour">>, <<"ec2", "describe_instance_types">>}
    \cup ({"ec2_od", "ec2_spot"} \X InstanceTypes)

\* Two price lists (v = 1, 2) in the units of the module header.
ListPrice(v, k) ==
    CASE k = <<"ddb", "ReadCapacityUnit-Hrs">> -> IF v = 1 THEN 130 ELSE 137
      [] k = <<"ddb", "WriteCapacityUnit-Hrs">> -> IF v = 1 THEN 650 ELSE 772
      [] k = <<"ddb", "TimedStorage-ByteHrs">> -> IF v = 1 THEN 250000 ELSE 283050
      [] k = <<"ddb", "ReadRequestUnits">> -> IF v = 1 THEN 250 ELSE 283
      [] k = <<"ddb", "WriteRequestUnits">> -> IF v = 1 THEN 1250 ELSE 1414
      [] k = <<"s3", "STANDARD">> -> IF v = 1 THEN 23000 ELSE 24500
      [] k = <<"s3", "STANDARD_IA">> -> 12500
      [] k = <<"s3", "ONEZONE_IA">> -> 10000
      [] k = <<"s3", "GLACIER">> -> 3600
      [] k = <<"s3", "DEEP_ARCHIVE">> -> 990
      [] k = <<"s3", "INTELLIGENT_TIERING">> -> 23000
      [] k = <<"s3", "GLACIER_IR">> -> 4000
      [] k = <<"s3", "PUT">> -> IF v = 1 THEN 5000 ELSE 5350
      [] k = <<"s3", "GET">> -> IF v = 1 THEN 400 ELSE 430
      [] k = <<"lambda_gb", "x86_64">> -> IF v = 1 THEN 167 ELSE 185
      [] k = <<"lambda_gb", "arm64">> -> IF v = 1 THEN 133 ELSE 148
      [] k = <<"lambda_req", "x86_64">> -> 2
      [] k = <<"lambda_req", "arm64">> -> 2
      [] k = <<"glue", "ETL-DPU-Hour">> -> IF v = 1 THEN 4400 ELSE 4433
      [] k = <<"ec2", "describe_instance_types">> -> 0
      [] k = <<"ec2_od", "t3.nano">> -> 52
      [] k = <<"ec2_od", "t3.micro">> -> 104
      [] k = <<"ec2_od", "t3.medium">> -> 416
      [] k = <<"ec2_od", "t3.small">> -> 208
      [] k = <<"ec2_od", "t3.large">> -> 832
      [] k = <<"ec2_od", "t3a.micro">> -> 94
      [] k = <<"ec2_od", "m5.large">> -> 960
      [] k[1] = "ec2_spot" -> 0

SpotSamples(name) ==
    CASE name = "t3.micro" -> <<31, 34>>
      [] name = "t3.nano" -> <<16>>
      [] name = "t3.medium" -> <<125, 130>>
      [] name = "t3.small" -> <<62, 66, 67>>
      [] name = "t3.large" -> <<250>>
      [] name = "t3a.micro" -> <<28>>
      [] name = "m5.large" -> <<400, 380>>

\* describe_instance_types: memory in GB (SizeInMiB // 1024).
Catalog ==
    <<[name |-> "t3.small", vCPU |-> 2, memory |-> 2],
      [name |-> "t3a.micro", vCPU |-> 2, memory |-> 1],
      [name |-> "t3.medium", vCPU |-> 2, memory |-> 4],
      [name |-> "t3.micro", vCPU |-> 2, memory |-> 1],
      [name |-> "t3.large", vCPU |-> 2, memory |-> 8],
      [name |-> "t3.nano", vCPU |-> 2, memory |-> 0]>>

Gateway(v) ==
    [price |-> [k \in PriceKeys |-> [st |-> "ok", price |-> ListPrice(v, k)]],
     spot |-> [n \in InstanceTypes |-> SpotSamples(n)],
     catalog |-> Catalog]

\* The gateway with one call answering "none" (no match) or "raise".
Break(gw, key, st) ==
    IF key[1] = "ec2_spot" /\ st = "none"
    THEN [gw EXCEPT !.spot[key[2]] = <<>>, !.price[key].st = st]
    ELSE [gw EXCEPT !.price[key] = [st |-> st, price |-> 0]]

\* The price keys each kind's cost model reads.
KeysOf(kind) ==
    CASE kind = "dynamodb" -> {k \in PriceKeys : k[1] = "ddb"}
      [] kind = "s3" -> {<<"s3", "STANDARD">>, <<"s3", "PUT">>, <<"s3", "GET">>,
                         <<"s3", "GLACIER">>}
      [] kind = "lambda" -> {k \in PriceKeys : k[1] \in {"lambda_gb", "lambda_req"}}
      [] kind = "glue" -> {<<"glue", "ETL-DPU-Hour">>}
      [] kind = "ec2" -> {<<"ec2", "describe_instance_types">>,
                          <<"ec2_od", "t3.micro">>, <<"ec2_spot", "t3.micro">>,
                          <<"ec2_od", "t3.small">>}

BrokenGateways(kind) ==
    {Break(Gateway(1), k, st) : k \in KeysOf(kind), st \in {"none", "raise"}}

\* Resource-change records.
Attrs(type, n) ==
    CASE type = "aws_lambda_function" ->
            (CASE n = 1 -> [name |-> "fn", memory_size |-> 512, timeout |-> 2,
                            architectures |-> <<"x86_64">>]
               [] n = 2 -> [name |-> "arm", architectures |-> <<"arm64">>]
               [] n = 3 -> <<>>
               [] n = 4 -> [name |-> "noarch", architectures |-> <<>>])
      [] type = "aws_dynamodb_table" ->
            (CASE n = 1 -> [billing_mode |-> "PROVISIONED", read_capacity |-> 5,
                            write_capacity |-> 5]
               [] n = 2 -> [billing_mode |-> "PAY_PER_REQUEST"]
               [] n = 3 -> <<>>
               [] n = 4 -> [billing_mode |-> "PROVISIONED", read_capacity |-> 30,
                            write_capacity |-> 1])
      [] type = "aws_s3_bucket" ->
            (CASE n = 1 -> [bucket |-> "a"]
               [] n = 2 -> [bucket |-> "b",
                            lifecycle_transition |-> [class |-> "GLACIER", days |-> 10]]
               [] n = 3 -> <<>>
               [] n = 4 -> [bucket |-> "c",
                            lifecycle_transition |-> [class |-> "GLACIER", days |-> 30]])
      [] type = "aws_glue_job" ->
            (CASE n = 1 -> [name |-> "etl", worker_type |-> "G.2X", number_of_workers |-> 2]
               [] n = 2 -> [name |-> "std", worker_type |-> "Standard"]
               [] n = 3 -> <<>>
               [] n = 4 -> [name |-> "tiny", worker_type |-> "G.025X",
                            number_of_workers |-> 3])
      [] type = "aws_instance" ->
            (CASE n = 1 -> [instance_type |-> "t3.micro"]
               [] n = 2 -> [instance_type |-> "t3.small", spot_instance |-> TRUE]
               [] n = 3 -> <<>>
               [] n = 4 -> [instance_type |-> "m5.large"])

TypeOf(kind) ==
    CASE kind = "ec2" -> "aws_instance"
      [] kind = "lambda" -> "aws_lambda_function"
      [] kind = "s3" -> "aws_s3_bucket"
      [] kind = "dynamodb" -> "aws_dynamodb_table"
      [] kind = "glue" -> "aws_glue_job"

\* Records with an attribute mapping, and records whose "after" is absent
\* or null (a resource that is being destroyed has "after": null).
GoodRecords(kind) == {Rec(TypeOf(kind), "map", Attrs(TypeOf(kind), n)) : n \in 1..4}
BareRecords(kind) == {Rec(TypeOf(kind), st, <<>>) : st \in {"absent", "null"}}

NonEmptySeqs(S, n) == SeqsUpTo(S, n) \ {<<>>}

\* One record of every kind.
MixedPlan ==
    PlanOf(<<Rec("aws_instance", "map", Attrs("aws_instance", 1)),
             Rec("aws_lambda_function", "map", Attrs("aws_lambda_function", 1)),
             Rec("aws_s3_bucket", "map", Attrs("aws_s3_bucket", 2)),
             Rec("aws_dynamodb_table", "map", Attrs("aws_dynamodb_table", 1)),
             Rec("aws_glue_job", "map", Attrs("aws_glue_job", 1))>>, "eu-west-1")

\* Command-line tokens after --optimization: a kind token or key=value.
KindToken(name) == [eq |-> FALSE, name |-> name, value |-> 0]
KV(key, value) == [eq |-> TRUE, name |-> key, value |-> value]

AllKindTokens == {KindToken(n) : n \in Kinds \cup {"unused", "rds"}}

\* key=value lists for each kind: recognized and unrecognized keys.
ParamLists(kind) ==
    CASE kind = "ec2" ->
            {<<>>, <<KV("hours", 100)>>, <<KV("storage", 5)>>,
             <<KV("hours", 10), KV("verbose", 1)>>}
      [] kind = "lambda" ->
            {<<>>, <<KV("invocations", 3000)>>, <<KV("duration", 1)>>,
             <<KV("hours", 5), KV("invocations", 500)>>, <<KV("invocations", -1000)>>}
      [] kind = "s3" ->
            {<<>>, <<KV("storage", 3)>>, <<KV("put_requests", 20000), KV("get_requests", 500)>>,
             <<KV("hours", 5), KV("storage", 2)>>, <<KV("storage", -5)>>}
      [] kind = "dynamodb" ->
            {<<>>, <<KV("storage", 30)>>, <<KV("reads", 4000), KV("writes", 10)>>,
             <<KV("hours", 5), KV("storage", 2)>>, <<KV("storage", -5)>>}
      [] kind = "glue" ->
            {<<>>, <<KV("hours", 100)>>, <<KV("storage", 5)>>,
             <<KV("hours", 3), KV("verbose", 1)>>}

ArgsFor(kind, kvs) == <<KindToken(kind)>> \o kvs

\* The invocations explored: [plan, args, gateway].
In(plan, args, gw) == [plan |-> plan, args |-> args, gateway |-> gw]

\* Any sequence of kind tokens, over a plan holding every kind.
OrchestrationInputs ==
    {In(plan, args, gw) :
        plan \in {MixedPlan, NotAMapping},
        args \in SeqsUpTo(AllKindTokens, MaxRequests),
        gw \in {Gateway(1), Break(Gateway(1), <<"glue", "ETL-DPU-Hour">>, "none"),
                Break(Gateway(1), <<"s3", "PUT">>, "raise")}}

\* Every plan of one kind's records, well-formed or not, and the plans
\* without resource changes; run for every kind (no arguments).
ExtractionInputs ==
    {In(plan, <<>>, Gateway(1)) :
        plan \in {NotAMapping, NoResourceChanges, PlanOf(<<>>, "")}
                 \cup UNION {{PlanOf(rc, "") :
                                 rc \in NonEmptySeqs(GoodRecords(k) \cup BareRecords(k),
                                                     MaxRecords)} : k \in Kinds}}

\* One kind, with one of its pricing calls failing or finding no match.
PricingInputs ==
    UNION {{In(PlanOf(rc, "eu-west-1"), ArgsFor(k, <<>>), gw) :
               rc \in NonEmptySeqs({Rec(TypeOf(k), "map", Attrs(TypeOf(k), n)) : n \in 1..2},
                                   MaxRecords),
               gw \in BrokenGateways(k)} : k \in Kinds}

\* One kind, with user parameters, under both price lists.
ParameterInputs ==
    UNION {{In(PlanOf(rc, ""), ArgsFor(k, kvs), Gateway(v)) :
               rc \in NonEmptySeqs(GoodRecords(k), MaxRecords),
               kvs \in ParamLists(k),
               v \in 1..2} : k \in Kinds}

\* Two optimization types in one invocation, each with or without its
\* key=value tokens, and a key=value token before the first type.
Segments ==
    {ArgsFor("ec2", kvs) : kvs \in {<<>>, <<KV("hours", 100)>>}}
    \cup {ArgsFor("lambda", kvs) : kvs \in {<<>>, <<KV("invocations", 3000)>>}}
    \cup {ArgsFor("glue", kvs) : kvs \in {<<>>, <<KV("hours", 3)>>}}
    \cup {ArgsFor("rds", <<KV("hours", 7)>>), ArgsFor("unused", <<KV("days", 7)>>)}
FramingInputs ==
    {In(MixedPlan, a \o b, Gateway(1)) : a \in Segments \cup {<<KV("hours", 5)>>},
                                        b \in Segments}

\* Functions whose usage is well above the free allowances (6 million
\* invocations each), under both price lists.
FreeTierInputs ==
    {In(PlanOf(rc, ""), ArgsFor("lambda", <<KV("invocations", 6000)>>), Gateway(v)) :
        rc \in {[n \in 1..Len(ns) |-> Rec("aws_lambda_function", "map",
                                          Attrs("aws_lambda_function", ns[n]))] :
                    ns \in {<<2>>, <<4>>, <<2, 4>>, <<2, 2>>}},
        v \in 1..2}

Inputs ==
    OrchestrationInputs \cup ExtractionInputs \cup PricingInputs \cup ParameterInputs
    \cup FramingInputs \cup FreeTierInputs

(***************************************************************************)
(* The state of one invocation.                                            *)
(***************************************************************************)
VARIABLES
    plan,           \* plan_data, as loaded
    gateway,        \* the Pricing Gateway's answers during this invocation
    args,           \* optimization_types: the tokens after --optimization
    i,              \* process_optimizations: next token to read (1-based)
    fixed,          \* process_optimizations without arguments: mains started
    pc,             \* "idle" between mains, else the stage of the running main
    cur,            \* the running main: [kind, params]
    region,
    resources,      \* the extracted descriptors
    user_defaults,
    warned,         \* the unrecognized-parameter warning was printed
    prices,         \* what the main fetched before its loop
    idx,            \* next resource of the per-resource loop
    results,        \* per-resource cost results so far
    totals,         \* running totals of the per-resource loop
    lookups,        \* the gateway calls of the running main, in order
    comparisons,    \* Lambda: the Graviton comparisons printed
    summary,        \* the total lines printed, if any
    log,            \* how each main ended: [kind, outcome]
    call,           \* a recommender or cost function called on its own: its arguments
    ret             \* what that call returned

vars == <<plan, gateway, args, i, fixed, pc, cur, region, resources, user_defaults,
          warned, prices, idx, results, totals, lookups, comparisons, summary, log,
          call, ret>>

input == <<plan, gateway, args>>
probe == <<call, ret>>
run == <<region, resources, user_defaults, warned, prices, idx, results, totals,
         lookups, comparisons, summary>>

NoSummary ==
    [emitted |-> FALSE, total |-> 0, discount |-> 0,
     dims |-> <<>>, recommendation |-> <<>>]

NoMain == [kind |-> NoneStr, params |-> ParamsNone]
NoCall == [fn |-> NoneStr]

\* Nothing has run yet.
Idle ==
    /\ i = 1
    /\ fixed = 0
    /\ pc = "idle"
    /\ cur = NoMain
    /\ region = ""
    /\ resources = <<>>
    /\ user_defaults = <<>>
    /\ warned = FALSE
    /\ prices = <<>>
    /\ idx = 1
    /\ results = <<>>
    /\ totals = <<>>
    /\ lookups = <<>>
    /\ comparisons = <<>>
    /\ summary = NoSummary
    /\ log = <<>>

Init ==
    /\ \E in \in Inputs :
          /\ plan = in.plan
          /\ gateway = in.gateway
          /\ args = in.args
    /\ Idle
    /\ call = NoCall
    /\ ret = <<>>

\* A main is entered: its locals are fresh.
Enter(kind, params) ==
    /\ cur' = [kind |-> kind, params |-> params]
    /\ region' = ""
    /\ resources' = <<>>
    /\ user_defaults' = <<>>
    /\ warned' = FALSE
    /\ prices' = <<>>
    /\ idx' = 1
    /\ results' = <<>>
    /\ totals' = <<>>
    /\ lookups' = <<>>
    /\ comparisons' = <<>>
    /\ summary' = NoSummary

\* Start running a type only the first time it is named.
Start_once(optimization_type, params) ==
    /\ Enter(optimization_type, params)
    /\ IF \E j \in 1..Len(log) : log[j].kind = optimization_type
       THEN pc' = "idle" /\ log' = log
       ELSE IF optimization_type \in Kinds
       THEN pc' = "extract" /\ log' = log
       ELSE /\ pc' = "idle"
            /\ log' = Append(log, [kind |-> optimization_type,
                                   outcome |-> IF optimization_type = "unused"
                                               THEN "unused" ELSE "unsupported"])

\* The branch of process_optimizations for one optimization type.
Start(optimization_type, params) ==
    /\ Enter(optimization_type, params)
    /\ IF optimization_type \in Kinds
       THEN pc' = "extract" /\ log' = log
       ELSE /\ pc' = "idle"
            /\ log' = Append(log, [kind |-> optimization_type,
                                   outcome |-> IF optimization_type = "unused"
                                               THEN "unused" ELSE "unsupported"])

FIXED_ORDER == <<"ec2", "lambda", "s3", "dynamodb", "glue", "unused">>

\* `if optimization_types == []`: every main in the fixed order, params None.
DispatchNoArgs ==
    /\ pc = "idle"
    /\ args = <<>>
    /\ fixed < Len(FIXED_ORDER)
    /\ fixed' = fixed + 1
    /\ Start(FIXED_ORDER[fixed + 1], ParamsNone)
    /\ UNCHANGED <<input, probe, i>>

\* One params dict kept across the iterations of the loop.
CollectParams_shared(from, to) ==
    LET acc[j \in 0..(to - 1)] ==
            IF j = 0 THEN <<>>
            ELSE IF args[j].eq THEN (args[j].name :> args[j].value) @@ acc[j - 1]
            ELSE acc[j - 1]
    IN  acc[to - 1]

\* The params dict built from tokens from..to-1; a later key=value wins.
CollectParams(from, to) ==
    LET acc[j \in (from - 1)..(to - 1)] ==
            IF j = from - 1 THEN <<>>
            ELSE (args[j].name :> args[j].value) @@ acc[j - 1]
    IN  acc[to - 1]

\* The loop reading one token an iteration: the key=value tokens
\* after a type are read again as types.
DispatchArgs_token ==
    /\ pc = "idle"
    /\ args # <<>>
    /\ i <= Len(args)
    /\ LET stops == {j \in (i + 1)..Len(args) : ~args[j].eq}
           next == IF stops = {} THEN Len(args) + 1
                   ELSE CHOOSE j \in stops : \A k \in stops : j <= k
           optimization_type == IF args[i].eq THEN "key=value" ELSE args[i].name
       IN  /\ i' = i + 1
           /\ Start(optimization_type, ParamsDict(CollectParams(i + 1, next)))
    /\ UNCHANGED <<input, probe, fixed>>

\* One iteration of the `while i < len(optimization_types)` loop: the type
\* token, then every following key=value token.
DispatchArgs ==
    /\ pc = "idle"
    /\ args # <<>>
    /\ i <= Len(args)
    /\ LET stops == {j \in (i + 1)..Len(args) : ~args[j].eq}
           next == IF stops = {} THEN Len(args) + 1
                   ELSE CHOOSE j \in stops : \A k \in stops : j <= k
           optimization_type == IF args[i].eq THEN "key=value" ELSE args[i].name
       IN  /\ i' = next
           /\ Start(optimization_type, ParamsDict(CollectParams(i + 1, next)))
    /\ UNCHANGED <<input, probe, fixed>>

\* The main returns with this outcome.
Finish(outcome) ==
    /\ pc' = "idle"
    /\ log' = Append(log, [kind |-> cur.kind, outcome |-> outcome])

\* An exception inside the main's try block.
Fail ==
    IF main_catches(cur.kind) THEN Finish("error")
    ELSE pc' = "crashed" /\ log' = log

\* region, then the extraction, then `if not <resources>: ... return`.
ExtractStep ==
    /\ pc = "extract"
    /\ LET r == region_or_default(plan)
           x == extract_for(cur.kind, plan)
       IN  IF r.exc # "none"
           THEN Fail /\ UNCHANGED <<region, resources>>
           ELSE /\ region' = r.val
                /\ IF x.exc # "none" THEN Fail /\ UNCHANGED resources
                   ELSE /\ resources' = x.val
                        /\ IF none_found(cur.kind, x.val) THEN Finish("none_found")
                           ELSE pc' = "merge" /\ log' = log
    /\ UNCHANGED <<input, probe, i, fixed, cur, user_defaults, warned, prices, idx, results,
                   totals, lookups, comparisons, summary>>

\* user_defaults and the merge of params over it.
MergeStep ==
    /\ pc = "merge"
    /\ LET m == merge_params(cur.kind, cur.params)
       IN  /\ user_defaults' = m.user_defaults
           /\ warned' = m.warned
           /\ totals' = totals0(cur.kind)
           /\ IF m.exc # "none" THEN Fail
              ELSE /\ pc' = IF has_price_step(cur.kind) THEN "price" ELSE "cost"
                   /\ log' = log
    /\ UNCHANGED <<input, probe, i, fixed, cur, region, resources, prices, idx, results,
                   lookups, comparisons, summary>>

\* The fetch that precedes the per-resource loop (DynamoDB, S3, EC2).
PriceStep ==
    /\ pc = "price"
    /\ LET f == price_step(cur.kind, gateway)
       IN  /\ lookups' = lookups \o f.calls
           /\ prices' = f.val
           /\ IF f.exc # "none" THEN Fail
              ELSE IF f.unavailable THEN Finish("pricing_unavailable")
              ELSE pc' = "cost" /\ log' = log
    /\ UNCHANGED <<input, probe, i, fixed, cur, region, resources, user_defaults, warned, idx,
                   results, totals, comparisons, summary>>

\* One iteration of the per-resource loop.
CostStep ==
    /\ pc = "cost"
    /\ idx <= Len(resources)
    /\ LET c == cost_step(cur.kind, resources[idx], plan, prices, user_defaults,
                          totals, gateway)
       IN  /\ lookups' = lookups \o c.calls
           /\ totals' = c.totals
           /\ IF c.exc # "none"
              THEN Fail /\ UNCHANGED <<idx, results>>
              ELSE /\ idx' = idx + 1
                   /\ results' = Append(results, c.result)
                   /\ log' = log
                   /\ pc' = IF idx < Len(resources) THEN "cost"
                            ELSE IF has_print_step(cur.kind) THEN "print"
                            ELSE "summary"
    /\ UNCHANGED <<input, probe, i, fixed, cur, region, resources, user_defaults, warned,
                   prices, comparisons, summary>>

\* print_<kind>_costs: the per-resource report after the loop.
PrintStep ==
    /\ pc = "print"
    /\ LET p == print_step(cur.kind, results, gateway)
       IN  /\ lookups' = lookups \o p.calls
           /\ comparisons' = p.val
           /\ IF p.exc # "none" THEN Fail
              ELSE pc' = "summary" /\ log' = log
    /\ UNCHANGED <<input, probe, i, fixed, cur, region, resources, user_defaults, warned,
                   prices, idx, results, totals, summary>>

\* The totals: summarize_<kind>_totals, or the last lines of
\* calculate_glue_job_costs.
SummaryStep ==
    /\ pc = "summary"
    /\ LET t == summary_step(cur.kind, results, totals, prices, user_defaults, gateway)
       IN  /\ lookups' = lookups \o t.calls
           /\ IF t.exc # "none"
              THEN Fail /\ UNCHANGED summary
              ELSE /\ summary' = [emitted |-> TRUE, total |-> t.total,
                                  discount |-> t.discount,
                                  dims |-> t.dims,
                                  recommendation |-> t.recommendation]
                   /\ Finish("summary")
    /\ UNCHANGED <<input, probe, i, fixed, cur, region, resources, user_defaults, warned,
                   prices, idx, results, totals, comparisons>>

Next ==
    \/ DispatchNoArgs
    \/ DispatchArgs
    \/ ExtractStep
    \/ MergeStep
    \/ PriceStep
    \/ CostStep
    \/ PrintStep
    \/ SummaryStep

Spec == Init /\ [][Next]_vars

\* The runs over the argument lists of two types and over the empty list.
ParseInit ==
    /\ \E in \in FramingInputs \cup {In(MixedPlan, <<>>, Gateway(1))} :
          /\ plan = in.plan
          /\ gateway = in.gateway
          /\ args = in.args
    /\ Idle
    /\ call = NoCall
    /\ ret = <<>>
\* The interpreter keeps executing: a step that can be taken is taken.
\* A step can be taken unless every type has been dispatched and the last
\* main has returned, and every step advances a position, so weak
\* fairness of Next is: forever again, the run is over or a position moves.
Over ==
    \/ pc = "crashed"
    \/ pc = "idle" /\ (IF args = <<>> THEN fixed = Len(FIXED_ORDER) ELSE i > Len(args))
Advance == pc' # pc \/ idx' # idx \/ i' # i \/ fixed' # fixed
ParseSpec == ParseInit /\ [][Next]_vars /\ ([]<>Over \/ []<><<Advance>>_vars)

(***************************************************************************)
(* Observations shared by the properties below.                            *)
(***************************************************************************)
\* The main of cur.kind has returned.
Returned == pc = "idle" /\ cur.kind \in Kinds
LastOutcome == IF log = <<>> THEN NoneStr ELSE log[Len(log)].outcome

\* The gateway's answer to a call is "no match".
NoMatch(key) ==
    IF key[1] = "ec2_spot" THEN gateway.spot[key[2]] = <<>>
    ELSE gateway.price[key].st = "none"
\* The gateway call fails.
CallFails(key) ==
    IF key[1] \in {"lambda_gb", "lambda_req"}
    THEN gateway.price[<<"lambda_gb", key[2]>>].st = "raise"
    ELSE gateway.price[key].st = "raise"

\* The unit prices the cost model of a kind needs to price these resources
\* and to total them (the prices of alternatives are not among them).
RequiredKeys(kind, rs) ==
    CASE kind = "dynamodb" -> {<<"ddb", DDB_PRICE_KEYS[j]>> : j \in 1..Len(DDB_PRICE_KEYS)}
      [] kind = "s3" ->
            {<<"s3", "STANDARD">>, <<"s3", "PUT">>, <<"s3", "GET">>}
            \cup {<<"s3", extract_storage_class_from_lifecycle(plan, rs[j]).class>> :
                     j \in {n \in 1..Len(rs) :
                               LET t == extract_storage_class_from_lifecycle(plan, rs[n])
                               IN  t.class \in STORAGE_CLASS_KEYWORDS /\ t.days < 30}}
      [] kind = "lambda" ->
            {"lambda_gb", "lambda_req"}
            \X ({"x86_64"} \cup {LambdaArchKey(rs[j].architecture) : j \in 1..Len(rs)})
      [] kind = "glue" -> {<<"glue", "ETL-DPU-Hour">>}
      [] kind = "ec2" -> {"ec2_od", "ec2_spot"} \X {rs[j].instance_type : j \in 1..Len(rs)}

\* C1: for every kind, if a unit price required by the kind's cost model is
\* unavailable (the lookup returns no match), the kind's run emits no total:
\* wherever a total has been emitted, every required price had a match.
C1_NoTotalWithoutPrices ==
    (cur.kind \in Kinds /\ summary.emitted)
        => \A k \in RequiredKeys(cur.kind, resources) : ~NoMatch(k)

\* The kinds requested, in order.
RequestedKinds ==
    IF args = <<>> THEN FIXED_ORDER
    ELSE LET types == SelectSeq(args, LAMBDA t : ~t.eq)
         IN  [j \in 1..Len(types) |-> types[j].name]
AllDispatched ==
    pc = "idle" /\ (IF args = <<>> THEN fixed = Len(FIXED_ORDER) ELSE i > Len(args))

\* C2: a failure inside one kind's optimization (a failing gateway call or a
\* missing required price) never leaves the kind's main: the main ends
\* reporting it, without a total, and every kind requested after it is run.
C2_FailureIsolated ==
    /\ pc # "crashed"
    /\ (Returned /\ \E k \in RequiredKeys(cur.kind, resources) : NoMatch(k) \/ CallFails(k))
           => /\ LastOutcome \in {"error", "pricing_unavailable"}
              /\ ~summary.emitted
    /\ AllDispatched => [j \in 1..Len(log) |-> log[j].kind] = RequestedKinds

\* The plan is not a mapping, or has no resource-change collection.
Malformed == ~plan.mapping \/ ~plan.has_rc

\* C3: with a malformed plan every kind's extraction yields the empty list
\* and the kind ends with 'none found': never an error, never a crash.
C3_MalformedPlanNoneFound ==
    Malformed
        => /\ pc # "crashed"
           /\ resources = <<>>
           /\ \A j \in 1..Len(log) :
                 log[j].kind \in Kinds => log[j].outcome = "none_found"

\* The records of the plan whose type is the kind's.
Matching(kind) ==
    SelectSeq(resource_changes(plan), LAMBDA r : r.type = TypeOf(kind))
AttrsOf(r) == IF r.after_state = "map" THEN r.after ELSE <<>>

\* The descriptor of a matching record carries its attributes, or the
\* documented defaults for those it lacks.
Documented(kind, r, d) ==
    CASE kind = "lambda" ->
            /\ d.memory = Get(AttrsOf(r), "memory_size", 128)
            /\ d.timeout = Get(AttrsOf(r), "timeout", 3)
      [] kind = "dynamodb" ->
            /\ d.billing_mode = Get(AttrsOf(r), "billing_mode", "PROVISIONED")
            /\ d.read_capacity = Get(AttrsOf(r), "read_capacity", 0)
            /\ d.write_capacity = Get(AttrsOf(r), "write_capacity", 0)
      [] kind = "glue" -> d.worker_type = Get(AttrsOf(r), "worker_type", "Standard")

\* C4: extraction succeeds on every record of the kind's type, whatever
\* optional attributes it lacks (an absent or null 'after', an empty
\* architectures list included): one descriptor per matching record, with
\* the documented defaults.
C4_ExtractionTolerant ==
    (cur.kind \in {"lambda", "dynamodb", "glue"} /\ pc # "extract" /\ plan.mapping)
        => /\ Len(resources) = Len(Matching(cur.kind))
           /\ \A j \in 1..Len(resources) :
                 Documented(cur.kind, Matching(cur.kind)[j], resources[j])

\* The list price of one unit of a free-tier dimension, in u, as num/den.
DimRate(kind, name) ==
    LET P(key) == gateway.price[key].price
    IN  CASE kind = "dynamodb" /\ name = "read" ->
                [num |-> HOURS_PER_MONTH * P(<<"ddb", "ReadCapacityUnit-Hrs">>), den |-> 100]
          [] kind = "dynamodb" /\ name = "write" ->
                [num |-> HOURS_PER_MONTH * P(<<"ddb", "WriteCapacityUnit-Hrs">>), den |-> 100]
          [] kind = "dynamodb" /\ name = "storage" ->
                [num |-> P(<<"ddb", "TimedStorage-ByteHrs">>), den |-> 100]
          [] kind = "s3" /\ name = "storage" -> [num |-> P(<<"s3", "STANDARD">>), den |-> 100]
          [] kind = "s3" /\ name = "put" -> [num |-> P(<<"s3", "PUT">>), den |-> 100000]
          [] kind = "s3" /\ name = "get" -> [num |-> P(<<"s3", "GET">>), den |-> 100000]
          [] kind = "lambda" /\ name = "requests" ->
                [num |-> P(<<"lambda_req", "x86_64">>), den |-> 1]
          [] kind = "lambda" /\ name = "gb_seconds" ->
                [num |-> P(<<"lambda_gb", "x86_64">>), den |-> 1024]

\* Equality of amounts up to the rounding the reports apply: 0.001 USD for
\* each rounded term that enters the amount.
Tolerance == 10 * (Len(results) + 1)
Near(a, b) == a - b <= Tolerance /\ b - a <= Tolerance

\* C5: for every free-tier computation (DynamoDB, Lambda, S3) and every
\* dimension, billable = max(total - allowance, 0) and the discount applied
\* to the dimension is (total - billable) x unit price.
C5_FreeTierFormula ==
    (cur.kind \in Kinds /\ summary.emitted)
        => \A j \in 1..Len(summary.dims) :
              LET d == summary.dims[j]
                  rate == DimRate(cur.kind, d.name)
              IN  /\ d.billable = Max(d.total - d.allowance, 0)
                  /\ Near(d.discount, Round3((d.total - d.billable) * rate.num, rate.den))

\* C6: for every free-tier result, whatever usage totals the run derives
\* (user-overridden usage parameters included): billable <= total,
\* discount >= 0 and discount <= the unadjusted cost of the dimension.
C6_FreeTierBounds ==
    (cur.kind \in Kinds /\ summary.emitted)
        => \A j \in 1..Len(summary.dims) :
              LET d == summary.dims[j]
              IN  /\ d.billable <= d.total
                  /\ d.discount >= -Tolerance
                  /\ d.discount <= d.unadjusted + Tolerance

\* The gateway's list price for a call key.
ListedPrice(key) == gateway.price[key].price

\* The cost of a per-resource result is the cost of its whole usage.
Unreduced(kind, r) ==
    CASE kind = "dynamodb" ->
            LET prov == r.mode = "PROVISIONED"
            IN  /\ r.storage = user_defaults["storage"]
                /\ r.cost_storage
                     = Round3(r.storage * ListedPrice(<<"ddb", "TimedStorage-ByteHrs">>), 100)
                /\ r.cost_read
                     = IF prov
                       THEN Round3(r.read * HOURS_PER_MONTH
                                   * ListedPrice(<<"ddb", "ReadCapacityUnit-Hrs">>), 100)
                       ELSE Round3(r.read * ListedPrice(<<"ddb", "ReadRequestUnits">>), 100000)
                /\ r.cost_write
                     = IF prov
                       THEN Round3(r.write * HOURS_PER_MONTH
                                   * ListedPrice(<<"ddb", "WriteCapacityUnit-Hrs">>), 100)
                       ELSE Round3(r.write * ListedPrice(<<"ddb", "WriteRequestUnits">>), 100000)
      [] kind = "s3" ->
            LET storage == user_defaults["storage"]
                early == r.transition_days # -1 /\ r.transition_days < 30
            IN  /\ r.put_cost
                     = Round3(user_defaults["put_requests"] * ListedPrice(<<"s3", "PUT">>), 100000)
                /\ r.get_cost
                     = Round3(user_defaults["get_requests"] * ListedPrice(<<"s3", "GET">>), 100000)
                /\ r.storage_cost
                     = IF early
                       THEN Round3(storage * r.transition_days
                                   * ListedPrice(<<"s3", "STANDARD">>), 3000)
                            + Round3(storage * (30 - r.transition_days)
                                     * ListedPrice(<<"s3", r.storage_class>>), 3000)
                       ELSE Round3(storage * ListedPrice(<<"s3", "STANDARD">>), 100)
      [] kind = "lambda" ->
            LET a == LambdaArchKey(r.architecture)
            IN  /\ r.requests = user_defaults["invocations"]
                /\ r.request_cost = r.requests * ListedPrice(<<"lambda_req", a>>)
                /\ r.compute_cost
                     = Round4(r.requests * r.memory * r.duration
                              * ListedPrice(<<"lambda_gb", a>>), 1024)

FreeTierKinds == {"dynamodb", "s3", "lambda"}

\* C7: free-tier allowances are deducted only from the aggregated totals of
\* a kind, once per run of the kind: every per-resource result carries the
\* cost of its whole usage, and the summary takes off each dimension at most
\* the worth of one allowance, whatever the number of resources.
C7_FreeTierOnAggregateOnly ==
    cur.kind \in FreeTierKinds
        => /\ \A j \in 1..Len(results) : Unreduced(cur.kind, results[j])
           /\ summary.emitted
                 => \A j \in 1..Len(summary.dims) :
                       LET d == summary.dims[j]
                           rate == DimRate(cur.kind, d.name)
                       IN  d.discount <= Round3(d.allowance * rate.num, rate.den) + Tolerance

\* C7 witness: a summary over two resources whose usage exceeds an allowance.
C7_Witness ==
    /\ cur.kind \in FreeTierKinds
    /\ summary.emitted
    /\ Len(results) >= 2
    /\ \E j \in 1..Len(summary.dims) :
          summary.dims[j].billable > 0 /\ summary.dims[j].discount > 0

\* The kind's extraction over this plan returns the empty list.
ExtractsNothing ==
    /\ cur.kind \in Kinds
    /\ region_or_default(plan).exc = "none"
    /\ extract_for(cur.kind, plan) = Ok(<<>>)

\* C8: when a kind's extraction returns the empty list, its run ends at once
\* with 'none found': no pricing lookup, no costing, no summary.
C8_EmptyShortCircuits ==
    (ExtractsNothing /\ pc # "extract")
        => /\ pc = "idle"
           /\ LastOutcome = "none_found"
           /\ lookups = <<>>
           /\ results = <<>>
           /\ ~summary.emitted

\* C8 witness: a kind found nothing in a plan that holds other resources.
C8_Witness ==
    /\ Returned
    /\ LastOutcome = "none_found"
    /\ Len(resource_changes(plan)) > 0

\* C9: unrecognized parameter keys are warned about and do not end the run:
\* the merge is followed by the next stage, with every recognized key of the
\* mapping overriding its default and every other recognized key keeping it
\* (Lambda's duration default is None: the key stays absent).
C9_ParamsMergedOverDefaults ==
    [][pc = "merge"
          => LET defaults == defaults_for(cur.kind)
                 given == IF cur.params.is_dict THEN cur.params.map ELSE <<>>
             IN  /\ pc' \in {"price", "cost"}
                 /\ warned' = (DOMAIN given \ allowed_keys(cur.kind) # {})
                 /\ \A k \in allowed_keys(cur.kind) :
                       IF k \in DOMAIN given THEN user_defaults'[k] = given[k]
                       ELSE IF k \in DOMAIN defaults THEN user_defaults'[k] = defaults[k]
                       ELSE k \notin DOMAIN user_defaults']_vars

\* C9 witness: a run that warned, overrode a default and reached its summary.
C9_Witness ==
    /\ Returned
    /\ warned
    /\ summary.emitted
    /\ \E k \in DOMAIN defaults_for(cur.kind) :
          user_defaults[k] # defaults_for(cur.kind)[k]

\* C10: within one run of a kind each unit price is fetched from the
\* gateway once: no gateway call is made a second time, for another
\* resource, for an alternative or for the summary.
C10_EachPriceFetchedOnce ==
    \A a, b \in 1..Len(lookups) : a # b => lookups[a] # lookups[b]

\* The components of a per-resource cost result and its subtotal, in u.
Components(kind, r) ==
    CASE kind = "dynamodb" -> <<r.cost_read, r.cost_write, r.cost_storage>>
      [] kind = "lambda" -> <<r.request_cost, r.compute_cost>>
      [] kind = "s3" -> <<r.storage_cost, r.put_cost, r.get_cost>>
      [] kind = "glue" -> IF r.cost.none THEN <<>> ELSE <<r.cost.v>>
      [] kind = "ec2" -> <<r.cost_monthly_on_demand.v, r.cost_monthly_spot.v>>
Subtotal(kind, r) ==
    CASE kind = "dynamodb" -> r.subtotal
      [] kind = "lambda" -> r.total_cost
      [] OTHER -> SeqSum(Components(kind, r), LAMBDA x : x)

\* C11: for every cost result, the subtotal equals the sum of its components
\* within 0.001 USD and every component is >= 0, whatever descriptor and
\* usage-assumption values the run was given.
C11_SubtotalIsSumOfComponents ==
    cur.kind \in Kinds
        => \A j \in 1..Len(results) :
              LET c == Components(cur.kind, results[j])
                  sum == SeqSum(c, LAMBDA x : x)
                  subtotal == Subtotal(cur.kind, results[j])
              IN  /\ subtotal - sum <= 10 /\ sum - subtotal <= 10
                  /\ \A n \in 1..Len(c) : c[n] >= 0

(***************************************************************************)
(* The gateway as a live service: between two calls of a run its answers   *)
(* may change once (a new price list, or a call that starts to fail or to  *)
(* find no match).                                                         *)
(***************************************************************************)
GatewayDrift ==
    /\ cur.kind \in Kinds
    /\ pc # "idle"
    /\ gateway = Gateway(1)
    /\ gateway' \in {Gateway(2)} \cup BrokenGateways(cur.kind)
    /\ UNCHANGED <<plan, args, i, fixed, pc, cur, run, log, probe>>

DriftInit == Init /\ gateway = Gateway(1)
DriftNext == Next \/ GatewayDrift
DriftSpec == DriftInit /\ [][DriftNext]_vars

\* C12: a Cost Model function called twice with identical descriptor, usage
\* and region yields identical output: within a run, two resources with the
\* same descriptor get the same cost result.
C12_SameInputsSameOutput ==
    cur.kind \in Kinds
        => \A a, b \in 1..Len(results) :
              resources[a] = resources[b] => results[a] = results[b]

\* ---------------------------------------------------------------------
\* The recommenders and the per-resource cost functions called on their
\* own, over every argument and pricing outcome of a bounded set.

\* Each catalog entry's on-demand price lookup answers, finds no match or
\* fails, in every combination.
Outcomes == {"ok", "none", "raise"}
Ec2Gateways ==
    {[Gateway(1) EXCEPT !.price =
          [k \in PriceKeys |->
              IF k[1] = "ec2_od" /\ InCatalog(Catalog, k[2])
              THEN [st |-> o[k[2]], price |-> IF o[k[2]] = "ok" THEN ListPrice(1, k) ELSE 0]
              ELSE @[k]]] :
        o \in [{Catalog[n].name : n \in 1..Len(Catalog)} -> Outcomes]}

Ec2Calls ==
    {[call |-> [fn |-> "suggest_alternatives", instance_type |-> t, hours_per_month |-> 720],
      gateway |-> gw] : t \in InstanceTypes, gw \in Ec2Gateways}

\* A job as extract_glue_jobs builds it: the worker type is whatever
\* string the descriptor carries.
WorkerTypes == {GLUE_TYPES[n] : n \in 1..Len(GLUE_TYPES)} \cup {"G.16X"}
GlueCalls ==
    {[call |-> [fn |-> "suggest_glue_alternatives",
                job |-> [name |-> "etl", worker_type |-> w, num_workers |-> n],
                monthly_hours |-> h],
      gateway |-> gw] :
        w \in WorkerTypes, n \in {2, 10}, h \in {100, 720},
        gw \in {Gateway(1), Gateway(2)} \cup BrokenGateways("glue")}

\* Monthly request counts around the points where the provisioned units
\* step up and where the two modes cost the same.
RequestCounts == {0, 1, 374399, 374400, 374401, 600000, SECONDS_PER_MONTH, SECONDS_PER_MONTH + 1}
WriteCounts == {0, 1, 374400, 600000}
BillingCalls ==
    {[call |-> [fn |-> "recommend_billing_mode", reads |-> r, writes |-> w,
                prices |-> dynamodb_fetch_prices(Gateway(v)).val],
      gateway |-> Gateway(v)] :
        r \in RequestCounts, w \in WriteCounts, v \in 1..2}

\* Bucket records with and without a name and a lifecycle transition,
\* the transition at any day up to MaxDays.
MaxDays == 31
Transitions ==
    {[class |-> c, days |-> d] : c \in {"GLACIER", "STANDARD_IA"}, d \in 0..MaxDays}
BucketRecords(transitions) ==
    {Rec("aws_s3_bucket", "map", [bucket |-> "a"]), Rec("aws_s3_bucket", "map", <<>>)}
    \cup {Rec("aws_s3_bucket", "map", [bucket |-> "a", lifecycle_transition |-> t]) :
              t \in transitions}
    \cup {Rec("aws_s3_bucket", "map", [lifecycle_transition |-> t]) : t \in transitions}
\* The cost of the bucket at place idx of a plan of one or two buckets.
S3Calls ==
    {[call |-> [fn |-> "calculate_s3_bucket_costs", terraform_data |-> PlanOf(rc, ""),
                idx |-> Len(rc),
                user_defaults |-> [s3_defaults EXCEPT !["storage"] = gb]],
      gateway |-> Gateway(v)] :
        rc \in {<<r>> : r \in BucketRecords(Transitions)}
                \cup {<<q, r>> : q \in BucketRecords({[class |-> "GLACIER", days |-> 30],
                                                       [class |-> "GLACIER", days |-> 10]}),
                                 r \in BucketRecords(Transitions)},
        gb \in {100, 7}, v \in 1..2}

GlueCostCalls ==
    {[call |-> [fn |-> "calculate_glue_cost", worker_type |-> w, num_workers |-> n,
                monthly_hours |-> h],
      gateway |-> gw] :
        w \in WorkerTypes, n \in {2, 10}, h \in {100, 720},
        gw \in {Gateway(1), Gateway(2)} \cup BrokenGateways("glue")}

\* The command line's front end.  A terraform subprocess exits with 0 or
\* not; with check=True a non-zero exit raises CalledProcessError.
\* run_plan: its except clause names subprocess.CalledProcessErroras, which
\* does not exist, so handling the CalledProcessError raises AttributeError.
run_plan(plan_exit) ==
    IF plan_exit = 0 THEN Ok(TRUE) @@ [steps |-> <<"terraform plan">>]
    ELSE Raise("AttributeError") @@ [steps |-> <<"terraform plan">>]

\* run_apply catches CalledProcessError only.
run_apply(plan_exit, apply_exit) ==
    LET success == run_plan(plan_exit)
        steps == success.steps \o <<"terraform apply">>
    IN  IF success.exc # "none" THEN success
        ELSE IF ~success.val THEN Ok(FALSE) @@ [steps |-> success.steps]
        ELSE IF apply_exit # 0 THEN Ok(FALSE) @@ [steps |-> steps]
        ELSE Ok(TRUE) @@ [steps |-> steps]

\* load_terraform_plan re-raises the CalledProcessError of `terraform show`.
load_terraform_plan(show_exit, plan_data) ==
    IF show_exit # 0 THEN Raise("CalledProcessError") ELSE Ok(plan_data)

\* `{}`: a plan that is falsy.
EmptyPlan == [NoResourceChanges EXCEPT !.truthy = FALSE]

\* main: [steps, plan_step, printed]: what was run, in order, what the plan
\* step returned or raised, and the exception main caught and printed.
main(c) ==
    LET plan_step == IF c.command = "plan" THEN run_plan(c.plan_exit)
                     ELSE run_apply(c.plan_exit, c.apply_exit)
        loaded == load_terraform_plan(c.show_exit, c.plan_data)
        show == plan_step.steps \o <<"terraform show">>
    IN  IF ~(c.command \in {"plan", "apply"} /\ c.found_optimization)
        THEN [steps |-> <<"terraform">>, plan_step |-> <<>>, printed |-> "none"]
        ELSE IF plan_step.exc # "none"
        THEN [steps |-> plan_step.steps, plan_step |-> plan_step, printed |-> plan_step.exc]
        ELSE IF ~plan_step.val
        THEN [steps |-> plan_step.steps, plan_step |-> plan_step, printed |-> "none"]
        ELSE IF loaded.exc # "none"
        THEN [steps |-> show, plan_step |-> plan_step, printed |-> loaded.exc]
        ELSE IF ~loaded.val.truthy
        THEN [steps |-> show, plan_step |-> plan_step, printed |-> "none"]
        ELSE [steps |-> show \o <<"process_optimizations">>, plan_step |-> plan_step,
              printed |-> "none"]

MainCalls ==
    {[call |-> [fn |-> "main", command |-> c, found_optimization |-> o, plan_exit |-> p,
                apply_exit |-> a, show_exit |-> sh, plan_data |-> d],
      gateway |-> Gateway(1)] :
        c \in {"plan", "apply", "init"}, o \in BOOLEAN, p \in 0..1, a \in 0..1,
        sh \in 0..1, d \in {MixedPlan, EmptyPlan}}

Calls ==
    Ec2Calls \cup GlueCalls \cup BillingCalls \cup S3Calls \cup GlueCostCalls \cup MainCalls

CallInit ==
    /\ plan = PlanOf(<<>>, "")
    /\ args = <<>>
    /\ Idle
    /\ \E c \in Calls :
          /\ call = c.call
          /\ gateway = c.gateway
    /\ ret = <<>>

CallSuggestAlternatives ==
    /\ call.fn = "suggest_alternatives"
    /\ ret = <<>>
    /\ ret' = <<suggest_alternatives(call.instance_type, call.hours_per_month,
                                     gateway.catalog, gateway)>>
    /\ UNCHANGED <<input, call, i, fixed, pc, cur, run, log>>

CallSuggestGlueAlternatives ==
    /\ call.fn = "suggest_glue_alternatives"
    /\ ret = <<>>
    /\ ret' = <<suggest_glue_alternatives(call.job, call.monthly_hours, gateway)>>
    /\ UNCHANGED <<input, call, i, fixed, pc, cur, run, log>>

CallRecommendBillingMode ==
    /\ call.fn = "recommend_billing_mode"
    /\ ret = <<>>
    /\ ret' = <<recommend_billing_mode(call.reads, call.writes, call.prices)>>
    /\ UNCHANGED <<input, call, i, fixed, pc, cur, run, log>>

\* One iteration of calculate_s3_bucket_costs, for the bucket at idx.
CallBucketCost ==
    /\ call.fn = "calculate_s3_bucket_costs"
    /\ ret = <<>>
    /\ ret' = <<s3_cost_step(extract_s3_buckets(call.terraform_data).val[call.idx],
                             call.terraform_data, s3_fetch_prices(gateway).val,
                             call.user_defaults, s3_totals0, gateway)>>
    /\ UNCHANGED <<input, call, i, fixed, pc, cur, run, log>>

CallCalculateGlueCost ==
    /\ call.fn = "calculate_glue_cost"
    /\ ret = <<>>
    /\ ret' = <<calculate_glue_cost(call.worker_type, call.num_workers,
                                    call.monthly_hours, gateway)>>
    /\ UNCHANGED <<input, call, i, fixed, pc, cur, run, log>>

CallMain ==
    /\ call.fn = "main"
    /\ ret = <<>>
    /\ ret' = <<main(call)>>
    /\ UNCHANGED <<input, call, i, fixed, pc, cur, run, log>>

CallNext ==
    \/ CallSuggestAlternatives
    \/ CallMain
    \/ CallCalculateGlueCost
    \/ CallBucketCost
    \/ CallRecommendBillingMode
    \/ CallSuggestGlueAlternatives

CallSpec == CallInit /\ [][CallNext]_vars

\* The call has returned normally.
Completed == ret # <<>> /\ ret[1].exc = "none"
Names(list) == {list[n].name : n \in 1..Len(list)}

C14_SameFamilyOnly ==
    (call.fn = "suggest_alternatives" /\ Completed /\ ret[1].val.found)
        => LET out == ret[1].val
               family == FamilyChars(call.instance_type)
           IN  /\ \A n \in 1..Len(ret[1].calls) : FamilyChars(ret[1].calls[n][2]) = family
               /\ \A name \in Names(out.cheaper) \cup Names(out.stronger) :
                      FamilyChars(name) = family

\* C15: a candidate of the EC2 recommender that has no available price is
\* skipped and the recommendation still completes normally over the
\* candidates that have one, for every combination of per-candidate
\* pricing outcomes, the current instance having no price included.
C15_UnpricedCandidatesSkipped ==
    (call.fn = "suggest_alternatives" /\ ret # <<>>
        /\ InCatalog(gateway.catalog, call.instance_type))
        => /\ ret[1].exc = "none"
           /\ Names(ret[1].val.candidates) \ {call.instance_type} =
                  {ret[1].calls[n][2] : n \in {m \in 1..Len(ret[1].calls) :
                       gateway.price[ret[1].calls[m]].st = "ok"}} \ {call.instance_type}

\* The worker types one tier below and one tier above in the list.
Neighbours(worker_type) ==
    {GLUE_TYPES[n] : n \in {m \in 1..Len(GLUE_TYPES) :
        \E k \in 1..Len(GLUE_TYPES) :
            GLUE_TYPES[k] = worker_type /\ (m = k - 1 \/ m = k + 1)}}

\* C16: for every worker type a job's descriptor can carry, the Glue
\* recommender completes and proposes exactly the in-range neighbours one
\* tier down and one tier up, Standard and G.1X never being proposed for
\* each other and the current type never being proposed.
C16_GlueNeighboursOnly ==
    (call.fn = "suggest_glue_alternatives" /\ ret # <<>>
        /\ gateway.price[<<"glue", "ETL-DPU-Hour">>].st # "raise")
        => LET w == call.job.worker_type
               proposed == {ret[1].val[n].worker_type : n \in 1..Len(ret[1].val)}
           IN  /\ ret[1].exc = "none"
               /\ w \notin proposed
               /\ proposed = {t \in Neighbours(w) : {w, t} # {"Standard", "G.1X"}}

\* The least number of units that serves `requests` a month at one
\* request per unit and second.
UnitsFor(requests) ==
    CHOOSE u \in 0..2 : u * SECONDS_PER_MONTH >= requests
                         /\ (u = 0 \/ (u - 1) * SECONDS_PER_MONTH < requests)
\* Both modes' monthly costs in 0.000000001 USD.
ProvisionedCost(c) ==
    1000 * HOURS_PER_MONTH * (UnitsFor(c.reads) * c.prices["read_prov"].v
                             + UnitsFor(c.writes) * c.prices["write_prov"].v)
OnDemandCost(c) ==
    c.reads * c.prices["read_ondemand"].v + c.writes * c.prices["write_ondemand"].v

\* C17: the billing-mode recommendation converts the monthly requests to
\* ceil(requests / seconds-per-month) provisioned units, reports both
\* modes' costs, and recommends on-demand exactly when its cost is
\* strictly lower than the provisioned cost; a tie gives provisioned.
C17_OnDemandOnlyIfStrictlyCheaper ==
    (call.fn = "recommend_billing_mode" /\ ret # <<>>)
        => /\ ret[1].estimated_cost_provisioned = Round3(ProvisionedCost(call), 100000)
           /\ ret[1].estimated_cost_on_demand = Round3(OnDemandCost(call), 100000)
           /\ ret[1].recommendation \in {"PAY_PER_REQUEST", "PROVISIONED"}
           /\ ret[1].recommendation = "PAY_PER_REQUEST"
                  <=> OnDemandCost(call) < ProvisionedCost(call)

\* Both modes cost the same, and not nothing: provisioned is recommended.
C17_Witness ==
    /\ call.fn = "recommend_billing_mode" /\ ret # <<>>
    /\ OnDemandCost(call) = ProvisionedCost(call)
    /\ OnDemandCost(call) > 0
    /\ ret[1].recommendation = "PROVISIONED"

OtherArchitecture(architecture) == IF architecture = "arm64" THEN "x86_64" ELSE "arm64"

\* C18: once the functions' costs are printed, every function, whatever
\* its architecture, has a comparison that prices the same configuration
\* on the other architecture, and a switch is recommended exactly when
\* that alternative's total cost is strictly lower than the current one.
C18_OtherArchitecturePriced ==
    (cur.kind = "lambda" /\ pc = "summary")
        => /\ Len(comparisons) = Len(results)
           /\ \A j \in 1..Len(results) :
                  j <= Len(comparisons) =>
                      LET r == results[j]
                          c == comparisons[j]
                          other == estimate_lambda_cost(
                                       [r EXCEPT !.architecture = OtherArchitecture(@)],
                                       r.requests, r.duration, gateway)
                      IN  /\ c.name = r.name
                          /\ c.current_cost = r.total_cost
                          /\ c.graviton_cost = other.val.total_cost
                          /\ c.switch <=> other.val.total_cost < r.total_cost

\* The costed bucket's own descriptor and its transition, if it has one.
OwnAfter == call.terraform_data.rc[call.idx].after
HasTransition == "lifecycle_transition" \in DOMAIN OwnAfter
OwnTransition == OwnAfter["lifecycle_transition"]
StandardPrice == gateway.price[<<"s3", "STANDARD">>].price
TargetPrice == gateway.price[<<"s3", OwnTransition.class>>].price
\* Thirty times the full-month and the pro-rata storage cost, in 0.000001 USD.
FullMonth30 == call.user_defaults["storage"] * 30 * StandardPrice
ProRata30 ==
    call.user_defaults["storage"]
        * (OwnTransition.days * StandardPrice + (30 - OwnTransition.days) * TargetPrice)
\* A cost in 0.0001 USD equals x / 3000 to within a thousandth of a dollar.
Within(cost, x) == cost * 3000 - x <= 30000 /\ x - cost * 3000 <= 30000

\* C19: a bucket whose lifecycle transition has a day threshold of 30 or
\* more is costed as a full month at the original (standard) class; one
\* whose threshold is 29 or less is costed pro-rata between the original
\* and the target class.
C19_ThirtyDaysIsFullMonth ==
    (call.fn = "calculate_s3_bucket_costs" /\ ret # <<>> /\ HasTransition)
        => /\ ret[1].exc = "none"
           /\ OwnTransition.days >= 30 => Within(ret[1].result.storage_cost, FullMonth30)
           /\ OwnTransition.days <= 29 => Within(ret[1].result.storage_cost, ProRata30)

\* A hundred thousand times the request cost, in 0.0001 USD.
Requests100000 ==
    call.user_defaults["put_requests"] * gateway.price[<<"s3", "PUT">>].price
        + call.user_defaults["get_requests"] * gateway.price[<<"s3", "GET">>].price

\* C20: for a bucket with a lifecycle transition at day d, d in 0..29, the
\* storage cost is (GB / 30) x d x original-class price + (GB / 30) x
\* (30 - d) x target-class price and the request cost is (PUT / 1000) x
\* PUT price + (GET / 1000) x GET price, to within a thousandth of a dollar.
C20_ProRataFormula ==
    (call.fn = "calculate_s3_bucket_costs" /\ ret # <<>> /\ HasTransition
        /\ OwnTransition.days \in 0..29)
        => LET r == ret[1].result
               requests == (r.put_cost + r.get_cost) * 100000
           IN  /\ ret[1].exc = "none"
               /\ Within(r.storage_cost, ProRata30)
               /\ requests - Requests100000 <= 1000000
               /\ Requests100000 - requests <= 1000000

\* ---------------------------------------------------------------------
\* The cost formulas.  A listed price is the gateway's answer for a usage
\* type; a cost c in 0.0001 USD equals x / den to within half a thousandth
\* of a dollar when |c * den - x| <= 5 * den, written with quotients.
Listed(service, usage_type) == gateway.price[<<service, usage_type>>].price
RoundedFrom(cost, x, den) == cost <= (x \div den) + 5 /\ cost >= -((-x) \div den) - 5

\* C21: a provisioned table's read (write) cost is its read (write)
\* capacity units x 720 hours x the provisioned price per unit-hour; an
\* on-demand table's read (write) cost is the assumed monthly requests x
\* the price per request; the storage cost is the assumed GB x the price
\* per GB-month in both modes (each rounded to three decimals).
C21_TableCostFormula ==
    cur.kind = "dynamodb"
        => \A j \in 1..Len(results) :
              LET r == results[j]
                  table == resources[j]
              IN  /\ RoundedFrom(r.cost_storage,
                                 user_defaults["storage"] * Listed("ddb", "TimedStorage-ByteHrs"),
                                 100)
                  /\ table.billing_mode = "PROVISIONED"
                        => /\ RoundedFrom(r.cost_read,
                                          table.read_capacity * HOURS_PER_MONTH
                                              * Listed("ddb", "ReadCapacityUnit-Hrs"), 100)
                           /\ RoundedFrom(r.cost_write,
                                          table.write_capacity * HOURS_PER_MONTH
                                              * Listed("ddb", "WriteCapacityUnit-Hrs"), 100)
                  /\ table.billing_mode = "PAY_PER_REQUEST"
                        => /\ RoundedFrom(r.cost_read,
                                          user_defaults["reads"]
                                              * Listed("ddb", "ReadRequestUnits"), 100000)
                           /\ RoundedFrom(r.cost_write,
                                          user_defaults["writes"]
                                              * Listed("ddb", "WriteRequestUnits"), 100000)

\* A provisioned and an on-demand table costed in one run, reads, writes
\* and storage all costing something.
C21_Witness ==
    /\ cur.kind = "dynamodb"
    /\ Len(results) = 2
    /\ {results[1].mode, results[2].mode} = {"PROVISIONED", "PAY_PER_REQUEST"}
    /\ \A j \in 1..2 : /\ results[j].cost_read > 0
                       /\ results[j].cost_write > 0
                       /\ results[j].cost_storage > 0

\* A cost c in 0.0001 USD equals x / den to within a ten-thousandth of a
\* dollar.
RoundedFrom4(cost, x, den) == cost <= (x \div den) + 1 /\ cost >= -((-x) \div den) - 1

\* C22: every function's compute cost is invocations x (memory / 1024) x
\* duration x the GB-second price of its own architecture and its request
\* cost is invocations x the per-request price, the duration being the
\* user's average-duration assumption (each rounded to four decimals).
C22_FunctionCostFormula ==
    cur.kind = "lambda"
        => \A j \in 1..Len(results) :
              LET r == results[j]
                  func == resources[j]
                  invocations == user_defaults["invocations"]
              IN  /\ "duration" \in DOMAIN user_defaults
                  /\ r.duration = Get(user_defaults, "duration", -1)
                  /\ RoundedFrom4(r.compute_cost,
                                  invocations * func.memory * r.duration
                                      * Listed("lambda_gb", func.architecture), 1024)
                  /\ RoundedFrom4(r.request_cost,
                                  invocations * Listed("lambda_req", func.architecture), 1)

\* C23: for every worker type of the tier list, a job's cost is its worker
\* count x the DPU factor of its worker type x the assumed monthly hours x
\* the price per DPU-hour (rounded to two decimals), whenever that price
\* is available.
C23_GlueCostFormula ==
    (call.fn = "calculate_glue_cost" /\ ret # <<>>
        /\ call.worker_type \in {GLUE_TYPES[n] : n \in 1..Len(GLUE_TYPES)}
        /\ gateway.price[<<"glue", "ETL-DPU-Hour">>].st = "ok")
        => LET x == call.num_workers * DPU_PER_WORKER[call.worker_type]
                        * call.monthly_hours * Listed("glue", "ETL-DPU-Hour")
           IN  /\ ret[1].exc = "none"
               /\ ~ret[1].val.none
               /\ ret[1].val.v <= (x \div 4) + 50
               /\ ret[1].val.v >= -((-x) \div 4) - 50

\* Ten G.8X workers for a whole month are costed.
C23_Witness ==
    /\ call.fn = "calculate_glue_cost" /\ ret # <<>>
    /\ call.worker_type = "G.8X"
    /\ call.num_workers = 10
    /\ call.monthly_hours = 720
    /\ ret[1].exc = "none"
    /\ ret[1].val.v > 0

\* The spot-price history of an instance type holds samples.
HasSamples(name) == gateway.price[<<"ec2_spot", name>>].st # "raise" /\ gateway.spot[name] # <<>>
\* Apart from spot prices, everything an EC2 run asks the gateway for is
\* answered.
Ec2OtherwisePriced ==
    /\ gateway.price[<<"ec2", "describe_instance_types">>].st = "ok"
    /\ \A j \in 1..Len(resources) :
          gateway.price[<<"ec2_od", resources[j].instance_type>>].st = "ok"

\* C24: an instance without spot-price samples has its spot cost reported
\* as unavailable, never as zero, and an instance with samples has a
\* numeric spot cost, the mean of the samples x the hours per month.
C24_SpotUnavailableNotZero ==
    (Returned /\ cur.kind = "ec2" /\ resources # <<>> /\ Ec2OtherwisePriced)
        => /\ LastOutcome = "summary"
           /\ Len(results) = Len(resources)
           /\ \A j \in 1..Len(results) :
                 LET name == resources[j].instance_type
                     cost == results[j].cost_monthly_spot
                     id(x) == x
                 IN  IF HasSamples(name)
                     THEN /\ ~cost.none
                          /\ RoundedFrom(cost.v,
                                         SeqSum(gateway.spot[name], id) * user_defaults["hours"],
                                         Len(gateway.spot[name]))
                     ELSE cost.none

\* ---------------------------------------------------------------------
\* The orchestrator.  The kinds whose main has been entered so far, in
\* order, and the supported ones among a sequence of names.
Ran ==
    [j \in 1..Len(log) |-> log[j].kind] \o (IF pc = "idle" THEN <<>> ELSE <<cur.kind>>)
Supported(names) == SelectSeq(names, LAMBDA k : k \in Kinds)
\* The supported kinds an invocation asks for, in order.
Asked ==
    IF args = <<>> THEN <<"ec2", "lambda", "s3", "dynamodb", "glue">>
    ELSE LET types == SelectSeq(args, LAMBDA t : ~t.eq)
         IN  Supported([j \in 1..Len(types) |-> types[j].name])

\* C25: with no kind specified every supported kind is run exactly once, in
\* the order compute, function, bucket, NoSQL, ETL; with kinds specified
\* exactly the listed kinds are run, once per occurrence, in the order
\* given: at any moment the kinds run so far are the first ones asked for,
\* and when the dispatch loop has ended they are all of them.
C25_EachKindOnceInOrder ==
    /\ pc # "crashed"
    /\ Len(Supported(Ran)) <= Len(Asked)
    /\ Supported(Ran) = SubSeq(Asked, 1, Len(Supported(Ran)))
    /\ AllDispatched => Supported(Ran) = Asked

\* The same kind asked for twice has been run twice.
C25_Witness ==
    /\ AllDispatched
    /\ Len(Asked) = 2
    /\ Asked[1] = Asked[2]
    /\ Len(log) = 2

\* The type token of the run in hand (the last one consumed) and the
\* key=value tokens that follow it up to the next type token.
OwnType == LET before == {j \in 1..(i - 1) : j = 1 \/ ~args[j].eq}
           IN  CHOOSE j \in before : \A k \in before : k <= j
OwnTokens == (OwnType + 1)..(i - 1)
OwnKeys == {args[j].name : j \in OwnTokens}
OwnValue(key) ==
    LET at == {j \in OwnTokens : args[j].name = key}
    IN  args[CHOOSE j \in at : \A k \in at : k <= j].value

\* C26: the parameters given after one kind token are applied to that kind
\* only: every kind run in the invocation gets a mapping of exactly its own
\* key=value tokens (empty when it has none) and its assumptions are its
\* own values over the defaults, whatever was given to the kinds before
\* and after it, unsupported ones included.
C26_ParamsOfOwnKindOnly ==
    (args # <<>> /\ i > 1)
        => /\ \A j \in OwnTokens : args[j].eq
           /\ cur.params.is_dict
           /\ DOMAIN cur.params.map = OwnKeys
           /\ \A k \in OwnKeys : cur.params.map[k] = OwnValue(k)
           /\ (cur.kind \in Kinds /\ user_defaults # <<>>)
                 => \A k \in DOMAIN user_defaults :
                       user_defaults[k] = IF k \in OwnKeys THEN OwnValue(k)
                                          ELSE defaults_for(cur.kind)[k]

\* Glue runs on its default hours after EC2 was given hours of its own.
C26_Witness ==
    /\ Len(args) = 3
    /\ args[1] = KindToken("ec2")
    /\ args[2] = KV("hours", 100)
    /\ args[3] = KindToken("glue")
    /\ cur.kind = "glue"
    /\ pc = "cost"
    /\ user_defaults = glue_defaults
    /\ Len(log) = 1

\* C27: for every finite argument list the parsing loop ends, and every
\* token is consumed exactly once: each iteration moves past the token it
\* takes as the type and past the key=value tokens that follow it, which
\* become that type's parameters, and stops before the next type token
\* or at the end of the list.
C27_ParsingTerminates ==
    /\ [][i' # i
            => /\ i' > i
               /\ i' <= Len(args) + 1
               /\ cur'.kind = (IF args[i].eq THEN "key=value" ELSE args[i].name)
               /\ \A j \in (i + 1)..(i' - 1) :
                     args[j].eq /\ args[j].name \in DOMAIN cur'.params.map
               /\ i' <= Len(args) => ~args[i'].eq]_vars
    /\ <>(pc = "idle" /\ i > Len(args))

\* A list of three tokens is read to its end in two iterations.
C27_Witness ==
    /\ Len(args) = 3
    /\ args[2].eq
    /\ ~args[3].eq
    /\ pc = "idle"
    /\ i = 4
    /\ Len(log) = 2

Steps == {ret[1].steps[n] : n \in 1..Len(ret[1].steps)}

\* C28: when the terraform plan command fails, run_plan returns False and
\* does not raise, and main then loads no plan and runs no optimization;
\* optimizations are processed only after the plan step succeeded and the
\* plan was loaded.
C28_NoOptimizationWithoutPlan ==
    (call.fn = "main" /\ ret # <<>>)
        => /\ (call.command = "plan" /\ call.found_optimization /\ call.plan_exit # 0)
                 => /\ ret[1].plan_step = Ok(FALSE) @@ [steps |-> <<"terraform plan">>]
                    /\ ret[1].printed = "none"
                    /\ "terraform show" \notin Steps
                    /\ "process_optimizations" \notin Steps
           /\ "process_optimizations" \in Steps
                 => /\ call.plan_exit = 0
                    /\ call.show_exit = 0
                    /\ ret[1].plan_step.exc = "none" /\ ret[1].plan_step.val
                    /\ ret[1].steps[Len(ret[1].steps) - 1] = "terraform show"

TotalCostOf(r) == r.total_cost

\* C29: for every set of functions, architectures and unit prices, the total
\* function cost reported after the free tier never exceeds the sum of the
\* per-function total costs reported before the free tier.
C29_FreeTierNeverRaisesTotal ==
    (cur.kind = "lambda" /\ summary.emitted)
        => summary.total <= SeqSum(results, TotalCostOf)

\* C30: each bucket is costed with its own lifecycle transition rule: for
\* every plan, including plans where two bucket records share a name or
\* have no name, the transition class and day threshold used for a bucket
\* are those of that bucket's own record (none when it has no transition).
C30_OwnLifecycleRule ==
    (call.fn = "calculate_s3_bucket_costs" /\ ret # <<>>)
        => /\ ret[1].exc = "none"
           /\ IF HasTransition
              THEN /\ ret[1].result.storage_class = OwnTransition.class
                   /\ ret[1].result.transition_days = OwnTransition.days
              ELSE /\ ret[1].result.storage_class = "STANDARD"
                   /\ ret[1].result.transition_days = -1
====
